---------------------------- MODULE Spec2Model ----------------------------
(***************************************************************************)
(* Verification model of docker-monitor-manager's core:                    *)
(*   - utils/worker.py            the bounded task runner (run_in_thread)  *)
(*   - utils/observer.py          Subject / Observer fan-out               *)
(*   - utils/docker_controller.py DockerDataController (the caches)        *)
(*   - utils/docker_utils.py      monitor_thread, scale_container,         *)
(*                                docker_events_listener                   *)
(*   - gui/managers/container_manager.py  stop_all                         *)
(* Each part has its own specification (SpecWorker, ...) over the shared   *)
(* variable list; a specification leaves the other parts' variables alone. *)
(***************************************************************************)
EXTENDS Integers, Sequences, FiniteSets, TLC

(***************************************************************************)
(* Bounds of the model.                                                    *)
(***************************************************************************)
\* worker.py:12 sets _MAX_PENDING = 128; the model checks a scaled-down cap.
PendingCap == 1
\* worker.py:7 sets _MAX_WORKERS = 16; scaled down in the same way.
WorkerCap == 1

VARIABLES
    \* ---- utils/worker.py ----
    semValue,     \* _pending_semaphore._value: the free permits
    pc,           \* per call slot: where the call / its task is
    call,         \* per call slot: the arguments of run_in_thread
    fnRuns,       \* per call slot: how many times fn() was executed
    acquired,     \* per call slot: permits this call took
    released,     \* per call slot: successful releases made by this call
    cbq,          \* per call slot: callbacks posted to Tk (pending) and invoked (delivered)
    \* ---- utils/observer.py, utils/docker_controller.py ----
    observers,    \* Subject._observers: the attached observers, in attach order
    cache,        \* the four _<resource>_cache lists of the controller
    tpc,          \* per thread: where it is in the controller call it makes
    op,           \* per thread: the call it makes or made last (name, res, data)
    snapshot,     \* per thread: notifyObservers' local copy of _observers
    idx,          \* per thread: next position of the pass in snapshot
    failed,       \* per thread: notifyObservers' failed_observers
    got,          \* per thread: what the get_<resource>() it returned from
                  \* gave it, until it makes its next call
    passLog,      \* per thread: the notifications its current call delivered
    evicted,      \* observers removed for a failure and not attached again
    stale,        \* per thread: observers evicted since its snapshot was taken
    raisedOut,    \* per thread: whether its last call raised to its caller
    pos,          \* per thread: next resource of a clear_all_caches / batch update
    wrote,        \* per thread: the caches its batch update has replaced so far
    \* ---- docker_controller.py, the cached lists as objects ----
    lists,        \* the list objects, by identity: each a sequence of dict identities
    dicts,        \* the dict objects (one per container): their 'status' field
    cacheRef,     \* per resource: the list object _<resource>_cache is bound to
    ret,          \* the list object the last get_<resource>() returned (0: none)
    \* ---- docker_controller.py, construction of the singleton ----
    _instance,    \* DockerDataController._instance (0: None)
    _controller,  \* the module global _controller (0: None)
    clsLock,      \* DockerDataController._lock: the thread holding it, or "free"
    spc,          \* per thread: where it is in the construction
    viaGetter,    \* per thread: TRUE when its call is get_docker_controller()
    self,         \* per thread: the object __new__ handed to __init__ (0: none)
    result,       \* per thread: the instance its last call returned (0: none)
    attrs,        \* per object: _initialized set?, and the state of _observers and
                  \* of the caches ("unset", "empty", "used")
    \* ---- utils/docker_utils.py: configuration, runtime, polling loop ----
    config,       \* CPU_LIMIT, RAM_LIMIT, CLONE_NUM, AUTO_SCALE_ENABLED, CONFIG_VERSION
    world,        \* the runtime: per container name its status and labels
    docker_lock,  \* docker_lock: the thread holding it, or Free
    mpc,          \* monitor_thread: where it is in its iteration
    mon,          \* monitor_thread: the locals of the iteration
    scaleLog,     \* the runtime calls the scaler made in this iteration
    \* ---- calls into the runtime client, container_manager.py: stop_all ----
    inClient,     \* the threads that are inside a call of the runtime client
    stopAll,      \* the pool thread running stop_all: position and locals
    \* ---- utils/docker_utils.py: docker_events_listener ----
    lpc,          \* docker_events_listener: where it is
    ev,           \* the event in hand
    since_refresh,  \* current time - last_refresh_time, in tenths of a second
    hist,         \* this run's last refresh-triggering event and the last one after it
    _restart_count,   \* docker_events_listener._restart_count
    consecutive,  \* stream failures since the stream last yielded an event
    rpc,          \* per call slot: where its _fetch_and_notify is
    rloc,         \* per call slot: the locals of its _fetch_and_notify
    \* ---- the locks of docker_controller.py and observer.py ----
    holder,       \* per lock: the thread that holds it, or Unheld
    todo,         \* per thread: the lock steps and observer calls still to make
    \* ---- docker_utils.py: the stats functions ----
    probe,        \* the call under test: the function and its arguments
    out,          \* what the call returned or raised
    \* ---- the threads that publish the container list ----
    runtime,      \* the Docker daemon: the container's state and how often it changed
    flow,         \* per publishing thread: the steps it still makes and its locals
    shown,        \* _containers_cache, with the listing it was sampled from
    queues,       \* stats_queue: the payloads it holds, oldest first
    offer,        \* per producer: where its _offer_latest call is, and its payload
    \* ---- docker_events_listener, counted over the process lifetime ----
    subscriptions,\* how many times client.events() was called
    since_submit  \* tenths of a second since this run's last refresh submission

workerVars == <<semValue, pc, call, fnRuns, acquired, released, cbq>>
subjectVars == <<observers, snapshot, idx, failed, passLog, evicted, stale>>
controllerVars == <<cache, tpc, op, got, raisedOut, pos, wrote>>

aliasVars == <<lists, dicts, cacheRef, ret>>
singletonVars == <<_instance, _controller, clsLock, spc, viaGetter, self, result, attrs>>

scalerVars == <<config, world, docker_lock, mpc, mon, scaleLog>>
lockVars == <<inClient, stopAll>>
listenerVars == <<lpc, ev, since_refresh, hist, _restart_count, consecutive, rpc, rloc>>
flowVars == <<runtime, flow, shown>>
queueVars == <<queues, offer>>
countVars == <<subscriptions, since_submit>>
unitVars == <<holder, todo, probe, out, flowVars, queueVars, countVars>>
utilsVars == <<scalerVars, lockVars, listenerVars, unitVars>>

vars == <<workerVars, subjectVars, controllerVars, aliasVars, singletonVars, utilsVars>>

(***************************************************************************)
(* utils/worker.py                                                         *)
(***************************************************************************)
_MAX_PENDING == PendingCap
_MAX_WORKERS == WorkerCap

\* The run_in_thread calls that can be in progress at the same time: one more
\* than there are permits, so that admission is refused or has to wait.
MaxCalls == _MAX_PENDING + 1
Calls == 1..MaxCalls

\* The exception type handed to on_error on rejection (worker.py:16).
TaskQueueFull == "TaskQueueFull"
\* What fn() can raise: any Exception of the task body (a docker error, ...).
TaskErrors == {"TaskError"}
\* What _executor.submit can raise (the pool was shut down).
SubmitError == "SubmitError"
\* What fn() can return.
Results == {"value"}

\* tk_root as the caller passes it: None, a widget whose mainloop runs, or a
\* widget whose after() raises RuntimeError (mainloop not available).
TkRoots == {"none", "ok", "unavailable"}

\* The arguments of a call that its _task closure keeps: whether on_done and
\* on_error are given, and tk_root.  block is read by the admission alone.
CallArgs == [on_done : BOOLEAN, on_error : BOOLEAN, tk_root : TkRoots]
\* The fire-and-forget shape of the repository's own calls (docker_utils.py:533,
\* container_manager.py:64, image_manager.py:264): no on_done.
FireAndForget == {a \in CallArgs : ~a.on_done}
NoCall == [on_done |-> FALSE, on_error |-> FALSE, tk_root |-> "none"]
NoCallbacks == [pending |-> <<>>, delivered |-> <<>>]

\* threading.BoundedSemaphore(_MAX_PENDING): acquire takes a permit when one
\* is free (non-blocking acquire returns False otherwise, blocking acquire
\* waits); release raises ValueError, which the callers catch, when the
\* value is already the initial one.
SemCanAcquire_OffByOne(v) == v >= 0
SemCanAcquire(v) == v > 0
SemAcquire(v) == v - 1
SemCanRelease(v) == v < _MAX_PENDING
SemRelease(v) == IF SemCanRelease(v) THEN v + 1 ELSE v

\* _schedule_callback(tk_root, cb, arg) on the callbacks q of one call: with
\* a live tk_root the callback is posted with after(0, ...) and runs later on
\* the Tk loop; with no tk_root, or when after() raises RuntimeError, it is
\* invoked at once on the calling thread.
\* worker.py:24-27, 35-38, 42-45: 'if arg is None: cb() else: cb(arg)'; a
\* callback called without an argument is recorded with NoArgument.
NoArgument == "<no argument>"
Passed(arg) == IF arg = "None" THEN NoArgument ELSE arg
_schedule_callback(q, tk, cb, arg) ==
    IF tk = "ok"
    THEN [q EXCEPT !.pending = Append(@, [cb |-> cb, arg |-> Passed(arg)])]
    ELSE [q EXCEPT !.delivered = Append(@, [cb |-> cb, arg |-> Passed(arg)])]

\* worker.py:69-74, the rejection path: the task is dropped and on_error,
\* when given, is scheduled with a TaskQueueFull.
RejectCallbacks_Silent(a) == NoCallbacks

RejectCallbacks(a) ==
    IF a.on_error
    THEN _schedule_callback(NoCallbacks, a.tk_root, "on_error", TaskQueueFull)
    ELSE NoCallbacks

\* A slot whose previous call is over (and whose callbacks have run) takes
\* the next call.
CallOver(c) ==
    /\ pc[c] \in {"idle", "rejected", "submit_failed", "done"}
    /\ cbq[c].pending = <<>>

\* run_in_thread(fn, on_done, on_error, tk_root, block), worker.py:59-74:
\* the admission.  block=True waits for a permit, block=False is rejected
\* when none is free.
run_in_thread_call(c, a, block) ==
    /\ CallOver(c)
    /\ call' = [call EXCEPT ![c] = a]
    /\ fnRuns' = [fnRuns EXCEPT ![c] = 0]
    /\ released' = [released EXCEPT ![c] = 0]
    /\ IF SemCanAcquire(semValue)
       THEN /\ semValue' = SemAcquire(semValue)
            /\ acquired' = [acquired EXCEPT ![c] = 1]
            /\ pc' = [pc EXCEPT ![c] = "acquired"]
            /\ cbq' = [cbq EXCEPT ![c] = NoCallbacks]
       ELSE /\ semValue' = semValue
            /\ acquired' = [acquired EXCEPT ![c] = 0]
            /\ pc' = [pc EXCEPT ![c] = IF block THEN "blocked" ELSE "rejected"]
            /\ cbq' = [cbq EXCEPT ![c] = IF block THEN NoCallbacks ELSE RejectCallbacks(a)]

run_in_thread(c, a, block) ==
    /\ run_in_thread_call(c, a, block)
    /\ UNCHANGED <<subjectVars, controllerVars, aliasVars, singletonVars, utilsVars>>

\* worker.py:62, a blocked _pending_semaphore.acquire() returns once a permit
\* is free.
acquire_blocking_GiveUp(c) ==
    /\ UNCHANGED <<subjectVars, controllerVars, aliasVars, singletonVars, utilsVars>>
    /\ pc[c] = "blocked"
    /\ pc' = [pc EXCEPT ![c] = "rejected"]
    /\ cbq' = [cbq EXCEPT ![c] = RejectCallbacks(call[c])]
    /\ UNCHANGED <<semValue, call, fnRuns, acquired, released>>

acquire_blocking(c) ==
    /\ UNCHANGED <<subjectVars, controllerVars, aliasVars, singletonVars, utilsVars>>
    /\ pc[c] = "blocked"
    /\ SemCanAcquire(semValue)
    /\ semValue' = SemAcquire(semValue)
    /\ acquired' = [acquired EXCEPT ![c] = acquired[c] + 1]
    /\ pc' = [pc EXCEPT ![c] = "acquired"]
    /\ UNCHANGED <<call, fnRuns, released, cbq>>

\* worker.py:92-94, _executor.submit(_task) succeeds: the task is queued.
executor_submit(c) ==
    /\ UNCHANGED <<subjectVars, controllerVars, aliasVars, singletonVars, utilsVars>>
    /\ pc[c] = "acquired"
    /\ pc' = [pc EXCEPT ![c] = "queued"]
    /\ UNCHANGED <<semValue, call, fnRuns, acquired, released, cbq>>

\* worker.py:95-103, _executor.submit raises: the permit is given back and
\* on_error, when given, is scheduled with the exception.
SubmitFailedCallbacks(q, a) ==
    IF a.on_error
    THEN _schedule_callback(q, a.tk_root, "on_error", SubmitError)
    ELSE q

executor_submit_fails(c) ==
    /\ UNCHANGED <<subjectVars, controllerVars, aliasVars, singletonVars, utilsVars>>
    /\ pc[c] = "acquired"
    /\ pc' = [pc EXCEPT ![c] = "submit_failed"]
    /\ released' = [released EXCEPT ![c] = IF SemCanRelease(semValue) THEN @ + 1 ELSE @]
    /\ semValue' = SemRelease(semValue)
    /\ cbq' = [cbq EXCEPT ![c] = SubmitFailedCallbacks(@, call[c])]
    /\ UNCHANGED <<call, fnRuns, acquired>>

\* A pool thread takes a queued task; at most _MAX_WORKERS run at a time.
Running == {c \in Calls : pc[c] \in {"running", "finally"}}

worker_start(c) ==
    /\ UNCHANGED <<subjectVars, controllerVars, aliasVars, singletonVars, utilsVars>>
    /\ pc[c] = "queued"
    /\ Cardinality(Running) < _MAX_WORKERS
    /\ pc' = [pc EXCEPT ![c] = "running"]
    /\ UNCHANGED <<semValue, call, fnRuns, acquired, released, cbq>>

\* _task, worker.py:77-84: fn() returns a result (on_done is scheduled when
\* given) or raises (on_error is scheduled when given).
TaskCallbacks(q, a, raised, value) ==
    IF raised
    THEN IF a.on_error THEN _schedule_callback(q, a.tk_root, "on_error", value) ELSE q
    ELSE IF a.on_done THEN _schedule_callback(q, a.tk_root, "on_done", value) ELSE q

\* worker.py:20-46: an exception of a callback that is invoked on the worker
\* is caught in _schedule_callback (l.39, 46) and goes no further.
CallbackEscapes_Uncaught(tk, cbRaises) == cbRaises /\ tk # "ok"

CallbackEscapes(tk, cbRaises) == FALSE

\* What fn() can return when its callers use the result: a value or None.
Returns == Results \cup {"None"}
CallbackError == "CallbackError"

\* _task, worker.py:77-84, with callbacks that may raise: an exception that
\* left _schedule_callback inside the try would be taken by 'except
\* Exception' (l.81) like one of fn().
_task_run(c, raised, value, cbRaises) ==
    /\ pc[c] = "running"
    /\ fnRuns' = [fnRuns EXCEPT ![c] = @ + 1]
    /\ LET first == TaskCallbacks(cbq[c], call[c], raised, value)
           escapes == ~raised /\ call[c].on_done /\ CallbackEscapes(call[c].tk_root, cbRaises)
       IN cbq' = [cbq EXCEPT ![c] =
              IF escapes THEN TaskCallbacks(first, call[c], TRUE, CallbackError) ELSE first]
    /\ pc' = [pc EXCEPT ![c] = "finally"]
    /\ UNCHANGED <<semValue, call, acquired, released>>

_task_call(c, raised, value) == _task_run(c, raised, value, FALSE)

\* _task with a callback that returns or raises.
_task_cb(c, raised, value, cbRaises) ==
    /\ _task_run(c, raised, value, cbRaises)
    /\ UNCHANGED <<subjectVars, controllerVars, aliasVars, singletonVars, utilsVars>>

_task(c, raised, value) ==
    /\ _task_call(c, raised, value)
    /\ UNCHANGED <<subjectVars, controllerVars, aliasVars, singletonVars, utilsVars>>

\* _task, worker.py:85-89: the finally clause gives the permit back, whether
\* fn returned or raised.
_task_finally_NoRelease(c) ==
    /\ UNCHANGED <<subjectVars, controllerVars, aliasVars, singletonVars, utilsVars>>
    /\ pc[c] = "finally"
    /\ pc' = [pc EXCEPT ![c] = "done"]
    /\ UNCHANGED <<semValue, call, fnRuns, acquired, released, cbq>>

_task_finally(c) ==
    /\ UNCHANGED <<subjectVars, controllerVars, aliasVars, singletonVars, utilsVars>>
    /\ pc[c] = "finally"
    /\ released' = [released EXCEPT ![c] = IF SemCanRelease(semValue) THEN @ + 1 ELSE @]
    /\ semValue' = SemRelease(semValue)
    /\ pc' = [pc EXCEPT ![c] = "done"]
    /\ UNCHANGED <<call, fnRuns, acquired, cbq>>

\* The Tk main loop runs a callback posted with after(0, ...).
tk_mainloop(c) ==
    /\ UNCHANGED <<subjectVars, controllerVars, aliasVars, singletonVars, utilsVars>>
    /\ cbq[c].pending # <<>>
    /\ cbq' = [cbq EXCEPT ![c] = [pending |-> Tail(@.pending),
                                  delivered |-> Append(@.delivered, Head(@.pending))]]
    /\ UNCHANGED <<semValue, pc, call, fnRuns, acquired, released>>

InitWorker ==
    /\ semValue = _MAX_PENDING
    /\ pc = [c \in Calls |-> "idle"]
    /\ call = [c \in Calls |-> NoCall]
    /\ fnRuns = [c \in Calls |-> 0]
    /\ acquired = [c \in Calls |-> 0]
    /\ released = [c \in Calls |-> 0]
    /\ cbq = [c \in Calls |-> NoCallbacks]

NextWorker ==
    \E c \in Calls :
        \/ \E a \in FireAndForget, block \in BOOLEAN : run_in_thread(c, a, block)
        \/ acquire_blocking(c)
        \/ executor_submit(c)
        \/ executor_submit_fails(c)
        \/ worker_start(c)
        \/ \E r \in Results : _task(c, FALSE, r)
        \/ \E e \in TaskErrors : _task(c, TRUE, e)
        \/ _task_finally(c)
        \/ tk_mainloop(c)

(***************************************************************************)
(* utils/observer.py: Subject                                              *)
(***************************************************************************)
\* The observers of the application (GUI panels, loggers).
Observers == {"gui", "logger"}
\* The threads that call into the controller: the polling loop
\* (docker_utils.py:345) and a pool worker running an event refresh or a
\* manual action (docker_utils.py:495, container_manager.py:41).
Threads == {"monitor_thread", "worker"}

Range(q) == {q[i] : i \in 1..Len(q)}

\* Python values handed to the controller: a list (with its items), None, or
\* an object of another type.
ListValue(q) == [kind |-> "list", items |-> q]
None == [kind |-> "None", items |-> <<>>]
NotAList == [kind |-> "other", items |-> <<>>]
EmptyList == ListValue(<<>>)
\* The lists callers pass: snapshots of zero or one entry.
Lists == {ListValue(q) : q \in {<<>>, <<"a">>}}
\* What a misusing caller passes instead of a list.
NotLists == {None, NotAList}

NoOp == [name |-> "none", res |-> "none", data |-> None]


RECURSIVE Without(_, _)
\* [o for o in self._observers if o not in failed_set]
Without(q, S) ==
    IF q = <<>> THEN <<>>
    ELSE IF Head(q) \in S THEN Without(Tail(q), S)
         ELSE <<Head(q)>> \o Without(Tail(q), S)

\* observer.py:100-103: the failed observers are taken out of _observers.
RemoveFailed_Keep(obs, failedSet) == obs

RemoveFailed(obs, failedSet) == Without(obs, failedSet)

InPass(t) == tpc[t] \in {"notify", "deliver"}

attach_Again(o) ==
    /\ observers' = Append(observers, o)
    /\ evicted' = evicted \ {o}
    /\ UNCHANGED <<snapshot, idx, failed, passLog, stale>>
    /\ UNCHANGED <<workerVars, controllerVars, aliasVars, singletonVars, utilsVars>>

\* Subject.attach, observer.py:43-53 (under self._lock).
attach(o) ==
    /\ observers' = IF o \in Range(observers) THEN observers ELSE Append(observers, o)
    /\ evicted' = evicted \ {o}
    /\ UNCHANGED <<snapshot, idx, failed, passLog, stale>>
    /\ UNCHANGED <<workerVars, controllerVars, aliasVars, singletonVars, utilsVars>>

\* Subject.detach, observer.py:55-65 (under self._lock).
detach(o) ==
    /\ observers' = Without(observers, {o})
    /\ UNCHANGED <<snapshot, idx, failed, passLog, evicted, stale>>
    /\ UNCHANGED <<workerVars, controllerVars, aliasVars, singletonVars, utilsVars>>

\* The event type and the payload of the notification a call sends.
EventType(o) ==
    CASE o.name = "update" -> o.res \o "_updated"
      [] o.name = "update_all" -> "batch_updated"
      [] OTHER -> "docker_event"

\* Subject.notifyObservers, observer.py:76-77: the observer list is copied
\* under self._lock.
notify_snapshot(t) ==
    /\ tpc[t] = "notify"
    /\ snapshot' = [snapshot EXCEPT ![t] = observers]
    /\ idx' = [idx EXCEPT ![t] = 1]
    /\ failed' = [failed EXCEPT ![t] = <<>>]
    /\ stale' = [stale EXCEPT ![t] = {}]
    /\ tpc' = [tpc EXCEPT ![t] = "deliver"]
    /\ UNCHANGED <<observers, passLog, evicted>>
    /\ UNCHANGED <<cache, op, got, raisedOut, pos, wrote>>
    /\ UNCHANGED <<workerVars, aliasVars, singletonVars, utilsVars>>

\* observer.py:88-97: the next observer of the copy is invoked, outside the
\* lock; an observer that raises is noted in failed_observers.
notify_observer(t, raises) ==
    /\ tpc[t] = "deliver"
    /\ idx[t] <= Len(snapshot[t])
    /\ passLog' = [passLog EXCEPT ![t] =
           Append(@, [obs |-> snapshot[t][idx[t]], event |-> EventType(op[t]), data |-> op[t].data])]
    /\ failed' = [failed EXCEPT ![t] = IF raises THEN Append(@, snapshot[t][idx[t]]) ELSE @]
    /\ idx' = [idx EXCEPT ![t] = @ + 1]
    /\ UNCHANGED <<observers, snapshot, evicted, stale>>
    /\ UNCHANGED controllerVars
    /\ UNCHANGED <<workerVars, aliasVars, singletonVars, utilsVars>>

notify_finish_Early(t) ==
    /\ tpc[t] = "deliver"
    /\ idx[t] > 1 \/ idx[t] > Len(snapshot[t])
    /\ observers' = RemoveFailed(observers, Range(failed[t]))
    /\ evicted' = evicted \cup (Range(failed[t]) \cap Range(observers))
    /\ stale' = [u \in Threads |->
           IF u # t /\ tpc[u] = "deliver" THEN stale[u] \cup Range(failed[t]) ELSE
           IF u = t THEN {} ELSE stale[u]]
    /\ tpc' = [tpc EXCEPT ![t] = "idle"]
    /\ snapshot' = [snapshot EXCEPT ![t] = <<>>]
    /\ idx' = [idx EXCEPT ![t] = 1]
    /\ failed' = [failed EXCEPT ![t] = <<>>]
    /\ passLog' = [passLog EXCEPT ![t] = <<>>]
    /\ op' = [op EXCEPT ![t] = NoOp]
    /\ wrote' = [wrote EXCEPT ![t] = <<>>]
    /\ UNCHANGED <<cache, got, raisedOut, pos>>
    /\ UNCHANGED <<workerVars, aliasVars, singletonVars, utilsVars>>

\* observer.py:99-106: after the pass the failed observers are removed under
\* self._lock, and the call returns.
notify_finish(t) ==
    /\ tpc[t] = "deliver"
    /\ idx[t] > Len(snapshot[t])
    /\ observers' = RemoveFailed(observers, Range(failed[t]))
    /\ evicted' = evicted \cup (Range(failed[t]) \cap Range(observers))
    /\ stale' = [u \in Threads |->
           IF u # t /\ tpc[u] = "deliver" THEN stale[u] \cup Range(failed[t]) ELSE
           IF u = t THEN {} ELSE stale[u]]
    /\ tpc' = [tpc EXCEPT ![t] = "idle"]
    /\ snapshot' = [snapshot EXCEPT ![t] = <<>>]
    /\ idx' = [idx EXCEPT ![t] = 1]
    /\ failed' = [failed EXCEPT ![t] = <<>>]
    /\ passLog' = [passLog EXCEPT ![t] = <<>>]
    /\ op' = [op EXCEPT ![t] = NoOp]
    /\ wrote' = [wrote EXCEPT ![t] = <<>>]
    /\ UNCHANGED <<cache, got, raisedOut, pos>>
    /\ UNCHANGED <<workerVars, aliasVars, singletonVars, utilsVars>>

(***************************************************************************)
(* utils/docker_controller.py: DockerDataController                       *)
(***************************************************************************)
Resources == <<"containers", "networks", "images", "volumes">>
ResourceSet == Range(Resources)

\* docker_controller.py:74-80: None and non-list inputs are refused.
IsListInput_Any(d) == TRUE

IsListInput(d) == d.kind # "None" /\ d.kind = "list"

\* docker_controller.py:82-83: the cached list is replaced.
SwapCache_Extend(old, new) == ListValue(old.items \o new.items)

SwapCache(old, new) == new

\* docker_controller.py:85: the notification is sent for every accepted
\* update, whatever the cache held.
ShouldNotify_IfChanged(old, new) == old # new

ShouldNotify(old, new) == TRUE

\* update_containers / update_networks / update_images / update_volumes,
\* docker_controller.py:67-86 (and 121-140, 175-194, 229-248): validation
\* and, under the resource's lock, the replacement of the cache.
update_resource(t, res, data) ==
    /\ tpc[t] = "idle"
    /\ op' = [op EXCEPT ![t] =
           [name |-> "update", res |-> res, data |-> data]]
    /\ passLog' = [passLog EXCEPT ![t] = <<>>]
    /\ raisedOut' = [raisedOut EXCEPT ![t] = FALSE]
    /\ IF IsListInput(data)
       THEN /\ cache' = [cache EXCEPT ![res] = SwapCache(@, data)]
            /\ tpc' = [tpc EXCEPT ![t] =
                   IF ShouldNotify(cache[res], data) THEN "notify" ELSE "idle"]
       ELSE /\ UNCHANGED <<cache, tpc>>
    /\ got' = [got EXCEPT ![t] = EmptyList]
    /\ UNCHANGED <<observers, snapshot, idx, failed, evicted, stale, pos, wrote>>
    /\ UNCHANGED <<workerVars, aliasVars, singletonVars, utilsVars>>

\* get_containers / get_networks / get_images / get_volumes,
\* docker_controller.py:88-96: a copy of the cached list, taken under the lock.
get_resource(t, res) ==
    /\ tpc[t] = "idle"
    /\ op' = [op EXCEPT ![t] = NoOp]
    /\ got' = [got EXCEPT ![t] = cache[res]]
    /\ raisedOut' = [raisedOut EXCEPT ![t] = FALSE]
    /\ UNCHANGED <<cache, tpc, pos, wrote>>
    /\ UNCHANGED subjectVars
    /\ UNCHANGED <<workerVars, aliasVars, singletonVars, utilsVars>>

\* clear_all_caches, docker_controller.py:295-304: the four caches are
\* emptied one after the other, each under its own lock; no notification.
clear_all_caches(t) ==
    /\ tpc[t] = "idle"
    /\ op' = [op EXCEPT ![t] = [name |-> "clear", res |-> "all", data |-> None]]
    /\ tpc' = [tpc EXCEPT ![t] = "clear"]
    /\ pos' = [pos EXCEPT ![t] = 1]
    /\ raisedOut' = [raisedOut EXCEPT ![t] = FALSE]
    /\ got' = [got EXCEPT ![t] = EmptyList]
    /\ UNCHANGED <<cache, wrote>>
    /\ UNCHANGED subjectVars
    /\ UNCHANGED <<workerVars, aliasVars, singletonVars, utilsVars>>

clear_step(t) ==
    /\ tpc[t] = "clear"
    /\ cache' = [cache EXCEPT ![Resources[pos[t]]] = EmptyList]
    /\ pos' = [pos EXCEPT ![t] = IF pos[t] = Len(Resources) THEN 1 ELSE @ + 1]
    /\ tpc' = [tpc EXCEPT ![t] = IF pos[t] = Len(Resources) THEN "idle" ELSE "clear"]
    /\ op' = [op EXCEPT ![t] = IF pos[t] = Len(Resources) THEN NoOp ELSE @]
    /\ UNCHANGED <<got, raisedOut, wrote>>
    /\ UNCHANGED subjectVars
    /\ UNCHANGED <<workerVars, aliasVars, singletonVars, utilsVars>>

\* update_all_resources, docker_controller.py:325-376: every argument that
\* is not None replaces its cache, under that resource's lock, in the order
\* containers, networks, images, volumes; then one batch_updated is sent when
\* anything was replaced.
BatchArgs == [ResourceSet -> {None} \cup Lists]
NextArg_Truthy(args, from) ==
    {i \in from..Len(Resources) : args[Resources[i]] # None /\ args[Resources[i]].items # <<>>}

NextArg(args, from) == {i \in from..Len(Resources) : args[Resources[i]] # None}
Min(S) == CHOOSE x \in S : \A y \in S : x <= y

update_all_resources(t, args) ==
    /\ tpc[t] = "idle"
    /\ op' = [op EXCEPT ![t] = [name |-> "update_all", res |-> "all", data |-> args]]
    /\ tpc' = [tpc EXCEPT ![t] = "batch"]
    /\ pos' = [pos EXCEPT ![t] = 1]
    /\ passLog' = [passLog EXCEPT ![t] = <<>>]
    /\ raisedOut' = [raisedOut EXCEPT ![t] = FALSE]
    /\ got' = [got EXCEPT ![t] = EmptyList]
    /\ wrote' = [wrote EXCEPT ![t] = <<>>]
    /\ UNCHANGED cache
    /\ UNCHANGED <<observers, snapshot, idx, failed, evicted, stale>>
    /\ UNCHANGED <<workerVars, aliasVars, singletonVars, utilsVars>>

batch_step(t) ==
    /\ tpc[t] = "batch"
    /\ LET left == NextArg(op[t].data, pos[t])
           any == NextArg(op[t].data, 1) # {}
       IN IF left # {}
          THEN /\ cache' = [cache EXCEPT ![Resources[Min(left)]] =
                      SwapCache(@, op[t].data[Resources[Min(left)]])]
               /\ pos' = [pos EXCEPT ![t] = Min(left) + 1]
               /\ wrote' = [wrote EXCEPT ![t] = Append(@, Resources[Min(left)])]
               /\ UNCHANGED tpc
          ELSE /\ tpc' = [tpc EXCEPT ![t] = IF any THEN "notify" ELSE "idle"]
               /\ pos' = [pos EXCEPT ![t] = 1]
               /\ UNCHANGED <<cache, wrote>>
    /\ UNCHANGED <<op, got, raisedOut>>
    /\ UNCHANGED subjectVars
    /\ UNCHANGED <<workerVars, aliasVars, singletonVars, utilsVars>>

\* notify_docker_event, docker_controller.py:283-291: a notification that
\* touches no cache.
notify_docker_event(t, event) ==
    /\ tpc[t] = "idle"
    /\ op' = [op EXCEPT ![t] = [name |-> "notify", res |-> "none", data |-> event]]
    /\ tpc' = [tpc EXCEPT ![t] = "notify"]
    /\ passLog' = [passLog EXCEPT ![t] = <<>>]
    /\ raisedOut' = [raisedOut EXCEPT ![t] = FALSE]
    /\ got' = [got EXCEPT ![t] = EmptyList]
    /\ UNCHANGED <<cache, pos, wrote>>
    /\ UNCHANGED <<observers, snapshot, idx, failed, evicted, stale>>
    /\ UNCHANGED <<workerVars, aliasVars, singletonVars, utilsVars>>

\* docker_controller.py:44-63 and observer.py:38-41: after construction the
\* caches and the observer list are empty.
InitController ==
    /\ observers = <<>>
    /\ cache = [r \in ResourceSet |-> EmptyList]
    /\ tpc = [t \in Threads |-> "idle"]
    /\ op = [t \in Threads |-> NoOp]
    /\ snapshot = [t \in Threads |-> <<>>]
    /\ idx = [t \in Threads |-> 1]
    /\ failed = [t \in Threads |-> <<>>]
    /\ got = [t \in Threads |-> EmptyList]
    /\ passLog = [t \in Threads |-> <<>>]
    /\ evicted = {}
    /\ stale = [t \in Threads |-> {}]
    /\ raisedOut = [t \in Threads |-> FALSE]
    /\ pos = [t \in Threads |-> 1]
    /\ wrote = [t \in Threads |-> <<>>]

\* The Subject alone: observers come and go and may raise, two threads send
\* docker_event notifications.
NextSubject ==
    \/ \E o \in Observers : attach(o)
    \/ \E o \in Observers : detach(o)
    \/ \E t \in Threads : notify_docker_event(t, [kind |-> "event", items |-> <<"start">>])
    \/ \E t \in Threads : notify_snapshot(t)
    \/ \E t \in Threads, raises \in BOOLEAN : notify_observer(t, raises)
    \/ \E t \in Threads : notify_finish(t)

\* The resource types the two threads of SpecController work on; the other
\* two run the same code.
InPlay == {"containers", "volumes"}
Inputs == Lists \cup NotLists
\* A batch argument is None, an empty list or a list of one entry.
BatchLists == Lists
BatchInPlay == {a \in BatchArgs : \A r \in ResourceSet :
                   a[r] \in (IF r \in InPlay THEN {None} \cup BatchLists ELSE {None})}

\* The controller under two threads that update, read, clear and batch-update
\* the caches while observers attach; the observers here do not raise (the
\* Subject with raising and detaching observers is SpecSubject).
NextController ==
    \/ \E o \in Observers : attach(o)
    \/ \E t \in Threads, r \in InPlay, d \in Inputs : update_resource(t, r, d)
    \/ \E t \in Threads, r \in InPlay : get_resource(t, r)
    \/ \E t \in Threads : clear_all_caches(t)
    \/ \E t \in Threads : clear_step(t)
    \/ \E t \in Threads, a \in BatchInPlay : update_all_resources(t, a)
    \/ \E t \in Threads : batch_step(t)
    \/ \E t \in Threads : notify_snapshot(t)
    \/ \E t \in Threads : notify_observer(t, FALSE)
    \/ \E t \in Threads : notify_finish(t)

(***************************************************************************)
(* docker_controller.py, update_<resource> / get_<resource> on the level   *)
(* of objects: which list object the cache is bound to, which one a get    *)
(* hands out, and the dicts both lists refer to.  One caller; no observer  *)
(* is attached, so the notification pass of an update invokes nobody.      *)
(***************************************************************************)
\* At most this many list objects are created (the four initial caches included).
MaxLists == 7
DictIds == {"d1", "d2"}
Statuses == {"running", "paused"}
ArgLists == {<<>>, <<"d1">>, <<"d1", "d2">>}

\* What a list object holds, read through its references.
ListContent(ls, ds, i) == [k \in 1..Len(ls[i]) |-> ds[ls[i][k]]]

\* update_<resource>(L), docker_controller.py:82-83: the cache is bound to
\* the caller's list object itself (self._containers_cache = containers_data).
update_binds(res, items) ==
    /\ Len(lists) < MaxLists
    /\ lists' = Append(lists, items)
    /\ cacheRef' = [cacheRef EXCEPT ![res] = Len(lists) + 1]
    /\ ret' = 0
    /\ UNCHANGED dicts
    /\ UNCHANGED <<workerVars, subjectVars, controllerVars, singletonVars, utilsVars>>

\* get_<resource>(), docker_controller.py:95-96: list.copy() makes a new
\* list object holding the same references (a shallow copy).
get_copies(res) ==
    /\ Len(lists) < MaxLists
    /\ lists' = Append(lists, lists[cacheRef[res]])
    /\ ret' = Len(lists) + 1
    /\ UNCHANGED <<dicts, cacheRef>>
    /\ UNCHANGED <<workerVars, subjectVars, controllerVars, singletonVars, utilsVars>>

\* The caller changes the returned list itself: r.append(d) or r.clear().
mutate_returned_list(newItems) ==
    /\ ret # 0
    /\ newItems # lists[ret]
    /\ lists' = [lists EXCEPT ![ret] = newItems]
    /\ UNCHANGED <<dicts, cacheRef, ret>>
    /\ UNCHANGED <<workerVars, subjectVars, controllerVars, singletonVars, utilsVars>>

\* The caller changes an element of the returned list: r[k]['status'] = s.
mutate_returned_element(k, s) ==
    /\ ret # 0
    /\ k \in 1..Len(lists[ret])
    /\ dicts[lists[ret][k]] # s
    /\ dicts' = [dicts EXCEPT ![lists[ret][k]] = s]
    /\ UNCHANGED <<lists, cacheRef, ret>>
    /\ UNCHANGED <<workerVars, subjectVars, controllerVars, singletonVars, utilsVars>>

\* The caller of update_<resource>(L), or an observer that received L as
\* the payload of the notification (notifyObservers(..., data=L),
\* docker_controller.py:85), changes L itself: L.append(d) or L.clear().
\* L is the list object the cache was bound to by that update.
mutate_argument_list(res, newItems) ==
    /\ cacheRef[res] > Len(Resources)
    /\ newItems # lists[cacheRef[res]]
    /\ lists' = [lists EXCEPT ![cacheRef[res]] = newItems]
    /\ UNCHANGED <<dicts, cacheRef, ret>>
    /\ UNCHANGED <<workerVars, subjectVars, controllerVars, singletonVars, utilsVars>>

\* docker_controller.py:51-54: each cache starts as its own empty list.
InitAlias ==
    /\ lists = [i \in 1..Len(Resources) |-> <<>>]
    /\ dicts = [d \in DictIds |-> "running"]
    /\ cacheRef = [r \in ResourceSet |-> CHOOSE i \in 1..Len(Resources) : Resources[i] = r]
    /\ ret = 0

NextAlias ==
    \/ \E r \in InPlay, items \in ArgLists : update_binds(r, items)
    \/ \E r \in InPlay : get_copies(r)
    \/ \E items \in ArgLists : mutate_returned_list(items)
    \/ \E k \in 1..2, st \in Statuses : mutate_returned_element(k, st)
    \/ \E r \in InPlay, items \in ArgLists : mutate_argument_list(r, items)

(***************************************************************************)
(* docker_controller.py, construction: get_docker_controller() (633-647),  *)
(* DockerDataController.__new__ (36-42) and __init__ (44-63), statement by *)
(* statement, called from several threads.                                 *)
(***************************************************************************)
\* At most this many controller objects are ever allocated.
MaxInstances == 2
Instances == 1..MaxInstances
NoAttrs == [initialized |-> FALSE, observers |-> "unset", caches |-> "unset"]
otherThanSingleton == <<workerVars, subjectVars, controllerVars, aliasVars, utilsVars>>

\* get_docker_controller(), l.644-645: the unsynchronised test of the global.
get_docker_controller(t) ==
    /\ spc[t] = "idle"
    /\ viaGetter' = [viaGetter EXCEPT ![t] = TRUE]
    /\ IF _controller = 0
       THEN /\ spc' = [spc EXCEPT ![t] = "new_check"]
            /\ result' = [result EXCEPT ![t] = 0]
       ELSE /\ spc' = [spc EXCEPT ![t] = "done"]
            /\ result' = [result EXCEPT ![t] = _controller]
    /\ UNCHANGED <<_instance, _controller, clsLock, self, attrs>>
    /\ UNCHANGED otherThanSingleton

\* A direct DockerDataController() call.
DockerDataController(t) ==
    /\ spc[t] = "idle"
    /\ viaGetter' = [viaGetter EXCEPT ![t] = FALSE]
    /\ spc' = [spc EXCEPT ![t] = "new_check"]
    /\ result' = [result EXCEPT ![t] = 0]
    /\ UNCHANGED <<_instance, _controller, clsLock, self, attrs>>
    /\ UNCHANGED otherThanSingleton

\* __new__, l.38: the first test of cls._instance, outside the lock.
new_check(t) ==
    /\ spc[t] = "new_check"
    /\ IF _instance = 0
       THEN /\ spc' = [spc EXCEPT ![t] = "new_lock"]
            /\ UNCHANGED self
       ELSE /\ spc' = [spc EXCEPT ![t] = "init_check"]
            /\ self' = [self EXCEPT ![t] = _instance]
    /\ UNCHANGED <<_instance, _controller, clsLock, viaGetter, result, attrs>>
    /\ UNCHANGED otherThanSingleton

\* __new__, l.39: with cls._lock.
new_lock(t) ==
    /\ spc[t] = "new_lock"
    /\ clsLock = "free"
    /\ clsLock' = t
    /\ spc' = [spc EXCEPT ![t] = "new_locked"]
    /\ UNCHANGED <<_instance, _controller, viaGetter, self, result, attrs>>
    /\ UNCHANGED otherThanSingleton

\* The second test of __new__, as the source has it (l.40).
SecondCheck(inst) == inst = 0

\* __new__, l.40-42: the second test under the lock, the allocation, the
\* release of the lock and the return of cls._instance.
new_locked(t) ==
    /\ spc[t] = "new_locked"
    /\ clsLock = t
    /\ LET fresh == CHOOSE i \in Instances : attrs[i] = NoAttrs /\ i # _instance
           made == IF SecondCheck(_instance) THEN fresh ELSE _instance
       IN /\ _instance' = made
          /\ self' = [self EXCEPT ![t] = made]
    /\ clsLock' = "free"
    /\ spc' = [spc EXCEPT ![t] = "init_check"]
    /\ UNCHANGED <<_controller, viaGetter, result, attrs>>
    /\ UNCHANGED otherThanSingleton

\* __init__, l.47: if not hasattr(self, '_initialized'), without any lock.
init_check(t) ==
    /\ spc[t] = "init_check"
    /\ spc' = [spc EXCEPT ![t] =
           IF attrs[self[t]].initialized THEN "return" ELSE "init_subject"]
    /\ UNCHANGED <<_instance, _controller, clsLock, viaGetter, self, result, attrs>>
    /\ UNCHANGED otherThanSingleton

\* __init__, l.48: super().__init__(), i.e. Subject.__init__ (observer.py:38-41):
\* self._observers = [] and a new lock.
init_subject(t) ==
    /\ spc[t] = "init_subject"
    /\ attrs' = [attrs EXCEPT ![self[t]].observers = "empty"]
    /\ spc' = [spc EXCEPT ![t] = "init_flag"]
    /\ UNCHANGED <<_instance, _controller, clsLock, viaGetter, self, result>>
    /\ UNCHANGED otherThanSingleton

\* __init__, l.49: self._initialized = True.
init_flag(t) ==
    /\ spc[t] = "init_flag"
    /\ attrs' = [attrs EXCEPT ![self[t]].initialized = TRUE]
    /\ spc' = [spc EXCEPT ![t] = "init_caches"]
    /\ UNCHANGED <<_instance, _controller, clsLock, viaGetter, self, result>>
    /\ UNCHANGED otherThanSingleton

\* __init__, l.52-61: the four caches are bound to new empty lists (and the
\* four locks to new locks).
init_caches(t) ==
    /\ spc[t] = "init_caches"
    /\ attrs' = [attrs EXCEPT ![self[t]].caches = "empty"]
    /\ spc' = [spc EXCEPT ![t] = "return"]
    /\ UNCHANGED <<_instance, _controller, clsLock, viaGetter, self, result>>
    /\ UNCHANGED otherThanSingleton

\* The constructor returns; get_docker_controller (l.646-647) binds the
\* global to the object and returns it.
return_instance(t) ==
    /\ spc[t] = "return"
    /\ result' = [result EXCEPT ![t] = self[t]]
    /\ _controller' = IF viaGetter[t] THEN self[t] ELSE _controller
    /\ self' = [self EXCEPT ![t] = 0]
    /\ spc' = [spc EXCEPT ![t] = "done"]
    /\ UNCHANGED <<_instance, clsLock, viaGetter, attrs>>
    /\ UNCHANGED otherThanSingleton

\* The caller uses what it was given: attach(observer) (observer.py:43-53).
use_attach(t) ==
    /\ spc[t] = "done"
    /\ attrs[result[t]].observers = "empty"
    /\ attrs' = [attrs EXCEPT ![result[t]].observers = "used"]
    /\ UNCHANGED <<_instance, _controller, clsLock, spc, viaGetter, self, result>>
    /\ UNCHANGED otherThanSingleton

\* The caller uses what it was given: update_<resource>(L) with a non-empty L.
use_update(t) ==
    /\ spc[t] = "done"
    /\ attrs[result[t]].caches = "empty"
    /\ attrs' = [attrs EXCEPT ![result[t]].caches = "used"]
    /\ UNCHANGED <<_instance, _controller, clsLock, spc, viaGetter, self, result>>
    /\ UNCHANGED otherThanSingleton

\* The caller comes back for another call (managers call
\* get_docker_controller() on every action, container_manager.py:40).
call_again(t) ==
    /\ spc[t] = "done"
    /\ spc' = [spc EXCEPT ![t] = "idle"]
    /\ UNCHANGED <<_instance, _controller, clsLock, viaGetter, self, result, attrs>>
    /\ UNCHANGED otherThanSingleton

\* docker_controller.py:33-34 and 634: nothing exists before the first call.
InitSingleton ==
    /\ _instance = 0
    /\ _controller = 0
    /\ clsLock = "free"
    /\ spc = [t \in Threads |-> "idle"]
    /\ viaGetter = [t \in Threads |-> TRUE]
    /\ self = [t \in Threads |-> 0]
    /\ result = [t \in Threads |-> 0]
    /\ attrs = [i \in Instances |-> NoAttrs]

NextSingleton ==
    \E t \in Threads :
        \/ get_docker_controller(t)
        \/ DockerDataController(t)
        \/ new_check(t)
        \/ new_lock(t)
        \/ new_locked(t)
        \/ init_check(t)
        \/ init_subject(t)
        \/ init_flag(t)
        \/ init_caches(t)
        \/ return_instance(t)
        \/ use_attach(t)
        \/ use_update(t)
        \/ call_again(t)

(***************************************************************************)
(* utils/docker_utils.py: the polling loop (monitor_thread) with the       *)
(* auto-scaler (scale_container, delete_clones), statement group by        *)
(* statement group, against a small runtime (the containers the daemon     *)
(* holds) and a concurrent settings edit.  Percentages are kept in         *)
(* hundredths (80.00 % is 8000), raw measurements in thousandths.          *)
(***************************************************************************)
\* At most this many clones exist per parent in the modelled runtime.
MaxCloneSlots == 2
\* At most this many settings edits are made.
MaxVersion == 1

\* docker_utils.py:12-23, 29: the module-level tunables as the source sets them.
CPU_LIMIT == 50
RAM_LIMIT == 5
CLONE_NUM == 2
AUTO_SCALE_ENABLED == TRUE
CONFIG_VERSION == 0
APP_CREATED_BY_LABEL == "docker-monitor-manager"
DefaultConfig ==
    [cpu_limit |-> CPU_LIMIT, ram_limit |-> RAM_LIMIT, clone_num |-> CLONE_NUM,
     auto_scale |-> AUTO_SCALE_ENABLED, version |-> CONFIG_VERSION]
\* The values a settings edit may install.
ConfigEdits ==
    {[DefaultConfig EXCEPT !.cpu_limit = 90],
     [DefaultConfig EXCEPT !.clone_num = 1],
     [DefaultConfig EXCEPT !.auto_scale = FALSE]}

\* Containers: a parent is named by its base name; the clone the scaler
\* makes is named "<parent>-clone-<uuid>" (l.327), here base name and number.
Bases == {"web"}
ContainerNames == [base : Bases, clone : 0..MaxCloneSlots]
ParentName(b) == [base |-> b, clone |-> 0]
NoName == [base |-> "", clone |-> 0]
NoLabel == "no-label"
PlainLabels == [is_clone |-> NoLabel, parent |-> NoName, created_by |-> NoLabel]
\* scale_container, l.318-322: the labels of a clone.
CloneLabels(container_name) ==
    [is_clone |-> "true", parent |-> container_name, created_by |-> APP_CREATED_BY_LABEL]
Absent == [status |-> "absent", labels |-> PlainLabels]

\* is_clone_container, l.163-176.
is_clone_container(c) == c.labels.is_clone = "true" /\ c.labels.parent # NoName
\* get_parent_container_name, l.179-189.
get_parent_container_name(c) == c.labels.parent

\* client.containers.list(all=True): a handle per existing container, with
\* the status and labels it had when listed.
NameOrder(n) == n.clone
RECURSIVE SortedNames(_)
SortedNames(S) ==
    IF S = {} THEN <<>>
    ELSE LET n == CHOOSE x \in S : \A y \in S : NameOrder(x) <= NameOrder(y)
         IN <<n>> \o SortedNames(S \ {n})
Listing(w) ==
    LET names == SortedNames({n \in ContainerNames : w[n].status # "absent"})
    IN [k \in 1..Len(names) |->
           [name |-> names[k], status |-> w[names[k]].status, labels |-> w[names[k]].labels]]

\* get_container_stats, l.101-160.  f"{cpu:.2f}": two decimals.
Format2(raw) == (raw + 5) \div 10
RawSamples ==
    {[cpu |-> 50004, ram |-> 5004], [cpu |-> 80000, ram |-> 1000], [cpu |-> 10000, ram |-> 9000]}
StatsOutcomes ==
    {[kind |-> "ok", raw |-> r] : r \in RawSamples}
        \cup {[kind |-> k, raw |-> [cpu |-> 0, ram |-> 0]] : k \in {"NotFound"}}
NoCallOutcome == [kind |-> "none", raw |-> [cpu |-> 0, ram |-> 0]]
\* What the runtime answers for a container: any outcome for a parent; a
\* clone is busy.
OutcomesFor(container) ==
    IF container.status # "running" THEN {NoCallOutcome}
    ELSE IF container.name.clone = 0 THEN StatsOutcomes
    ELSE {[kind |-> "ok", raw |-> [cpu |-> 80000, ram |-> 1000]]}
NoStats == [name |-> NoName, status |-> "removed", cpu |-> 0, ram |-> 0]
get_container_stats(container, outcome) ==
    IF container.status # "running"
    THEN [name |-> container.name, status |-> container.status, cpu |-> 0, ram |-> 0]
    ELSE IF outcome.kind = "NotFound" THEN NoStats
    ELSE IF outcome.kind = "error"
    THEN [name |-> container.name, status |-> container.status, cpu |-> 0, ram |-> 0]
    ELSE [name |-> container.name, status |-> container.status,
          cpu |-> Format2(outcome.raw.cpu), ram |-> Format2(outcome.raw.ram)]

\* monitor_thread, l.376-379: which containers the scaler looks at.
Eligible_AnyRunning(container, stats) ==
    stats # NoStats /\ container.status = "running"
Eligible(container, stats) ==
    stats # NoStats /\ container.status = "running" /\ ~is_clone_container(container)
\* monitor_thread, l.385: float(stats['cpu']) > CPU_LIMIT or ... > RAM_LIMIT.
Overloaded(stats, cfg) == stats.cpu > cfg.cpu_limit * 100 \/ stats.ram > cfg.ram_limit * 100

\* A scaler that finds none of the listed clones.
existing_clones_None(container, all_containers) == <<>>
\* scale_container, l.266 (and delete_clones, l.205): the listed clones of a parent.
existing_clones(container, all_containers) ==
    SelectSeq(all_containers,
              LAMBDA c : is_clone_container(c) /\ get_parent_container_name(c) = container.name)
\* scale_container, l.268: the parent is at capacity.
AtCapacity(n, cfg) == n >= cfg.clone_num
\* scale_container, l.295: how many clones may still be made.
clones_to_create(n, cfg) == IF cfg.clone_num - n > 0 THEN cfg.clone_num - n ELSE 0
\* scale_container, l.324-334: one clone per invocation.
ClonesPerScale_Burst(n, cfg) == clones_to_create(n, cfg)
ClonesPerScale(n, cfg) == IF clones_to_create(n, cfg) > 0 THEN 1 ELSE 0

\* The holder of docker_lock (docker_utils.py:47): nobody, or a thread.
Free == [thread |-> "free", slot |-> 0]
MonitorThread == [thread |-> "monitor_thread", slot |-> 0]
\* The pool thread that runs the task of call slot c.
PoolThread(c) == [thread |-> "pool", slot |-> c]

FreshLocals ==
    [all |-> <<>>, k |-> 1, pairs |-> <<>>, observed |-> 0, captured |-> DefaultConfig,
     cfg0 |-> DefaultConfig, overloaded |-> <<>>, i |-> 1, todo |-> <<>>, made |-> 0,
     failed |-> FALSE, published |-> 0]

restOfScaler == <<workerVars, subjectVars, aliasVars, singletonVars, lockVars, listenerVars, unitVars>>

\* The container the scaler is handling, and what follows it.
Current == mon.all[mon.overloaded[mon.i]]
AfterContainer == IF mon.i >= Len(mon.overloaded) THEN "publish" ELSE "check"
\* monitor_thread, l.425-428: except Exception: log; then time.sleep.
OuterHandler_Exit == "terminated"
OuterHandler == "sleep"

\* monitor_thread, l.352-354: an iteration starts and takes docker_lock.
m_lock ==
    /\ mpc = "start"
    /\ docker_lock = Free
    /\ docker_lock' = MonitorThread
    /\ mpc' = "list"
    /\ mon' = [FreshLocals EXCEPT !.cfg0 = config]
    /\ scaleLog' = <<>>
    /\ UNCHANGED <<config, world>>
    /\ UNCHANGED <<restOfScaler, controllerVars>>

\* l.355: client.containers.list(all=True) under the lock, which the with
\* statement gives back whether the call returns or raises.
m_list(ok) ==
    /\ mpc = "list"
    /\ docker_lock' = Free
    /\ IF ok
       THEN /\ mon' = [mon EXCEPT !.all = Listing(world)]
            /\ mpc' = IF Listing(world) = <<>> THEN "gate" ELSE "sample"
       ELSE /\ mon' = [mon EXCEPT !.failed = TRUE]
            /\ mpc' = OuterHandler
    /\ UNCHANGED <<config, world, scaleLog>>
    /\ UNCHANGED <<restOfScaler, controllerVars>>

\* l.359-363: one get_container_stats per listed container (no lock held).
m_sample(outcome) ==
    /\ mpc = "sample"
    /\ outcome \in OutcomesFor(mon.all[mon.k])
    /\ mon' = [mon EXCEPT !.pairs = Append(@, get_container_stats(mon.all[mon.k], outcome)),
                          !.k = @ + 1]
    /\ mpc' = IF mon.k = Len(mon.all) THEN "gate" ELSE "sample"
    /\ UNCHANGED <<config, world, docker_lock, scaleLog>>
    /\ UNCHANGED <<restOfScaler, controllerVars>>

\* l.366-373: the flag is read and the configuration version captured.
m_gate ==
    /\ mpc = "gate"
    /\ IF config.auto_scale
       THEN /\ mon' = [mon EXCEPT !.observed = config.version, !.captured = config]
            /\ mpc' = "detect"
       ELSE /\ mpc' = "publish"
            /\ UNCHANGED mon
    /\ UNCHANGED <<config, world, docker_lock, scaleLog>>
    /\ UNCHANGED <<restOfScaler, controllerVars>>

\* l.374-386: the running, non-clone containers over a limit, in listing order.
m_detect ==
    /\ mpc = "detect"
    /\ LET ov == SelectSeq([k \in 1..Len(mon.all) |-> k],
                           LAMBDA k : /\ Eligible(mon.all[k], mon.pairs[k])
                                      /\ Overloaded(mon.pairs[k], config))
       IN /\ mon' = [mon EXCEPT !.overloaded = ov, !.i = 1]
          /\ mpc' = IF ov = <<>> THEN "publish" ELSE "check"
    /\ UNCHANGED <<config, world, docker_lock, scaleLog>>
    /\ UNCHANGED <<restOfScaler, controllerVars>>

\* l.388-413: before each scale_container call the flag and the version are
\* read again; the container is skipped when either changed.
m_check ==
    /\ mpc = "check"
    /\ IF ~config.auto_scale \/ config.version # mon.observed
       THEN /\ mon' = [mon EXCEPT !.i = @ + 1]
            /\ mpc' = AfterContainer
       ELSE /\ mpc' = "scale"
            /\ UNCHANGED mon
    /\ UNCHANGED <<config, world, docker_lock, scaleLog>>
    /\ UNCHANGED <<restOfScaler, controllerVars>>

\* scale_container, l.266-268: the listed clones are counted against CLONE_NUM.
m_scale ==
    /\ mpc = "scale"
    /\ LET ex == existing_clones(Current, mon.all)
       IN IF AtCapacity(Len(ex), config)
          THEN /\ mon' = [mon EXCEPT !.todo = ex]
               /\ mpc' = "pause"
          ELSE /\ mon' = [mon EXCEPT !.made = 0]
               /\ mpc' = "create"
    /\ UNCHANGED <<config, world, docker_lock, scaleLog>>
    /\ UNCHANGED <<restOfScaler, controllerVars>>

\* scale_container, l.270-277: container.pause() (errors are logged), then
\* delete_clones.
m_pause(ok) ==
    /\ mpc = "pause"
    /\ world' = IF ok /\ world[Current.name].status = "running"
                THEN [world EXCEPT ![Current.name].status = "paused"]
                ELSE world
    /\ scaleLog' = Append(scaleLog,
           [act |-> "pause", target |-> Current.name, by |-> Current,
            labels |-> PlainLabels, ver |-> config.version, outcome |-> "called"])
    /\ IF mon.todo = <<>>
       THEN /\ mon' = [mon EXCEPT !.i = @ + 1]
            /\ mpc' = AfterContainer
       ELSE /\ mpc' = "delete"
            /\ UNCHANGED mon
    /\ UNCHANGED <<config, docker_lock>>
    /\ UNCHANGED <<restOfScaler, controllerVars>>

\* delete_clones, l.208-219: clone.stop(), then clone.remove(); NotFound and
\* other errors are logged and the next clone is tried.
m_delete(outcome) ==
    /\ mpc = "delete"
    /\ LET clone == Head(mon.todo)
       IN /\ outcome \in (IF world[clone.name].status = "absent"
                          THEN {"NotFound"} ELSE {"removed", "stop_failed"})
          /\ world' = CASE outcome = "removed" -> [world EXCEPT ![clone.name] = Absent]
                        [] OTHER -> world
          /\ scaleLog' = Append(scaleLog,
                 [act |-> "stop_remove", target |-> clone.name, by |-> Current,
                  labels |-> clone.labels, ver |-> config.version, outcome |-> outcome])
    /\ IF Len(mon.todo) = 1
       THEN /\ mon' = [mon EXCEPT !.todo = <<>>, !.i = @ + 1]
            /\ mpc' = AfterContainer
       ELSE /\ mon' = [mon EXCEPT !.todo = Tail(@)]
            /\ UNCHANGED mpc
    /\ UNCHANGED <<config, docker_lock>>
    /\ UNCHANGED <<restOfScaler, controllerVars>>

\* The name the runtime gives the new clone (a free slot of the parent's base).
FreeSlots(w, b) == {n \in 1..MaxCloneSlots : w[[base |-> b, clone |-> n]].status = "absent"}

\* scale_container, l.284-342: nothing when auto-scaling is off or no clone is
\* needed; otherwise client.containers.run(..., labels=labels), whose
\* failure is logged.
m_create(ok) ==
    /\ mpc = "create"
    /\ LET n == Len(existing_clones(Current, mon.all))
           count == IF config.auto_scale THEN ClonesPerScale(n, config) ELSE 0
           free == FreeSlots(world, Current.name.base)
           new == [base |-> Current.name.base, clone |-> CHOOSE s \in free : \A x \in free : s <= x]
       IN IF mon.made >= count
          THEN /\ ~ok
               /\ mon' = [mon EXCEPT !.i = @ + 1]
               /\ mpc' = AfterContainer
               /\ UNCHANGED <<world, scaleLog>>
          ELSE /\ ok => free # {}
               /\ world' = IF ok
                           THEN [world EXCEPT ![new] =
                                    [status |-> "running", labels |-> CloneLabels(Current.name)]]
                           ELSE world
               /\ scaleLog' = Append(scaleLog,
                      [act |-> "run", target |-> IF ok THEN new ELSE NoName, by |-> Current,
                       labels |-> CloneLabels(Current.name), ver |-> config.version,
                       outcome |-> IF ok THEN "created" ELSE "failed"])
               /\ IF mon.made + 1 >= count
                  THEN /\ mon' = [mon EXCEPT !.made = @ + 1, !.i = @ + 1]
                       /\ mpc' = AfterContainer
                  ELSE /\ mon' = [mon EXCEPT !.made = @ + 1]
                       /\ UNCHANGED mpc
    /\ UNCHANGED <<config, docker_lock>>
    /\ UNCHANGED <<restOfScaler, controllerVars>>

\* l.358-363: stats_payload holds the snapshots that are not None, in the
\* order of the listing.
stats_payload_All(pairs) == pairs

stats_payload(pairs) == SelectSeq(pairs, LAMBDA s : s # NoStats)

\* l.419-420: controller.update_containers(stats_payload); no observer is
\* attached in this specification, so its notification pass invokes nobody.
\* (The copy offered to the GUI's stats_queue, l.423, is read by nothing in
\* the loop and is left out.)
m_publish ==
    /\ mpc = "publish"
    /\ cache' = [cache EXCEPT !["containers"] = SwapCache(@, ListValue(stats_payload(mon.pairs)))]
    /\ mon' = [mon EXCEPT !.published = @ + 1]
    /\ mpc' = "sleep"
    /\ UNCHANGED <<config, world, docker_lock, scaleLog>>
    /\ UNCHANGED <<restOfScaler, tpc, op, got, raisedOut, pos, wrote>>

\* An exception that no inner handler takes, raised after the listing:
\* the rest of the iteration is abandoned (l.425-426).
m_raise ==
    /\ mpc \in {"sample", "gate", "detect", "check", "scale", "pause", "delete", "create", "publish"}
    /\ mon' = [FreshLocals EXCEPT !.failed = TRUE, !.cfg0 = mon.cfg0, !.published = mon.published]
    /\ mpc' = OuterHandler
    /\ UNCHANGED <<config, world, docker_lock, scaleLog>>
    /\ UNCHANGED <<restOfScaler, controllerVars>>

\* l.428: time.sleep(SLEEP_TIME) returns and the loop goes round.
m_sleep ==
    /\ mpc = "sleep"
    /\ mpc' = "start"
    /\ mon' = FreshLocals
    /\ scaleLog' = <<>>
    /\ UNCHANGED <<config, world, docker_lock>>
    /\ UNCHANGED <<restOfScaler, controllerVars>>

\* A settings edit: the tunables are replaced and CONFIG_VERSION is
\* incremented (the module's settings writer, docker_utils.py:20-23).
set_config(new) ==
    /\ config.version < MaxVersion
    /\ config' = [cpu_limit |-> new.cpu_limit, ram_limit |-> new.ram_limit,
                  clone_num |-> new.clone_num, auto_scale |-> new.auto_scale,
                  version |-> config.version + 1]
    /\ UNCHANGED <<world, docker_lock, mpc, mon, scaleLog>>
    /\ UNCHANGED <<restOfScaler, controllerVars>>

\* The runtime between two iterations: a user unpauses a parent.
runtime_unpause(b) ==
    /\ mpc = "start"
    /\ world[ParentName(b)].status = "paused"
    /\ world' = [world EXCEPT ![ParentName(b)].status = "running"]
    /\ UNCHANGED <<config, docker_lock, mpc, mon, scaleLog>>
    /\ UNCHANGED <<restOfScaler, controllerVars>>

InitScaler ==
    /\ config = DefaultConfig
    /\ world = [n \in ContainerNames |->
                   IF n = ParentName("web")
                   THEN [status |-> "running", labels |-> PlainLabels] ELSE Absent]
    /\ docker_lock = Free
    /\ mpc = "start"
    /\ mon = FreshLocals
    /\ scaleLog = <<>>

MonitorStep ==
    \/ m_lock
    \/ \E ok \in BOOLEAN : m_list(ok)
    \/ \E outcome \in StatsOutcomes \cup {NoCallOutcome} : m_sample(outcome)
    \/ m_gate
    \/ m_detect
    \/ m_check
    \/ m_scale
    \/ \E ok \in BOOLEAN : m_pause(ok)
    \/ \E outcome \in {"NotFound", "removed", "stop_failed"} : m_delete(outcome)
    \/ \E ok \in BOOLEAN : m_create(ok)
    \/ m_publish
    \/ m_raise
    \/ m_sleep

NextScaler ==
    \/ MonitorStep
    \/ \E new \in ConfigEdits : set_config(new)
    \/ \E b \in Bases : runtime_unpause(b)

(***************************************************************************)
(* gui/managers/container_manager.py: stop_all                             *)
(***************************************************************************)
\* stop_all runs on a pool thread (container_manager.py:160).
StopAllThread == PoolThread(1)
StopAllIdle == [pc |-> "idle", containers |-> <<>>, i |-> 1]
restOfLock == <<workerVars, subjectVars, controllerVars, aliasVars, singletonVars, listenerVars, unitVars>>

\* container_manager.py:134: client.containers.list() is entered; the
\* function takes no lock.
stop_all_list ==
    /\ stopAll.pc = "idle"
    /\ stopAll' = [stopAll EXCEPT !.pc = "list"]
    /\ inClient' = inClient \cup {StopAllThread}
    /\ UNCHANGED <<scalerVars, restOfLock>>

\* The listing returns the running containers, or raises (l.155-158).
stop_all_listed(ok) ==
    /\ stopAll.pc = "list"
    /\ inClient' = inClient \ {StopAllThread}
    /\ LET names == SortedNames({n \in ContainerNames : world[n].status = "running"})
       IN stopAll' = IF ok /\ names # <<>>
                     THEN [pc |-> "next", containers |-> names, i |-> 1]
                     ELSE StopAllIdle
    /\ UNCHANGED <<scalerVars, restOfLock>>

\* try_stop, l.137-139: container.stop(timeout=10) is entered.
stop_all_stop ==
    /\ stopAll.pc = "next"
    /\ stopAll' = [stopAll EXCEPT !.pc = "stop"]
    /\ inClient' = inClient \cup {StopAllThread}
    /\ UNCHANGED <<scalerVars, restOfLock>>

\* try_stop, l.139-146: the stop returns or raises (caught); then the next
\* container.
stop_all_stopped(ok) ==
    /\ stopAll.pc = "stop"
    /\ inClient' = inClient \ {StopAllThread}
    /\ LET n == stopAll.containers[stopAll.i]
       IN world' = IF ok /\ world[n].status \in {"running", "paused"}
                   THEN [world EXCEPT ![n].status = "exited"]
                   ELSE world
    /\ stopAll' = IF stopAll.i = Len(stopAll.containers)
                  THEN StopAllIdle
                  ELSE [stopAll EXCEPT !.pc = "next", !.i = @ + 1]
    /\ UNCHANGED <<config, docker_lock, mpc, mon, scaleLog>>
    /\ UNCHANGED restOfLock

InitLock ==
    /\ inClient = {}
    /\ stopAll = StopAllIdle

\* The polling loop next to a "stop all containers" action.
NextLock ==
    \/ MonitorStep
    \/ stop_all_list
    \/ \E ok \in BOOLEAN : stop_all_listed(ok)
    \/ stop_all_stop
    \/ \E ok \in BOOLEAN : stop_all_stopped(ok)

(***************************************************************************)
(* utils/docker_utils.py: docker_events_listener                           *)
(***************************************************************************)
\* docker_utils.py:28: the name prefix of the app's containers.
APP_CONTAINER_NAME_PREFIX == <<"d", "m", "m", "-">>
\* l.442: the actions that matter.
relevant_events ==
    {"create", "start", "stop", "die", "destroy", "pause", "unpause", "kill", "restart"}
\* l.446: MIN_REFRESH_INTERVAL = 0.5, in tenths of a second.
MIN_REFRESH_INTERVAL == 5
\* l.545: max_restarts = 5.
max_restarts == 5

\* The events the stream delivers (names are strings of characters): of the
\* app's own container, by label or by name prefix; of foreign containers,
\* one of them with a name shorter than the prefix; one whose action is not
\* in relevant_events; and one of another type.
StreamEvents ==
    {[Type |-> "container", Action |-> "start", created_by |-> APP_CREATED_BY_LABEL,
      name |-> <<"w", "e", "b">>],
     [Type |-> "container", Action |-> "die", created_by |-> NoLabel,
      name |-> <<"d", "m", "m", "-", "w", "e", "b">>],
     [Type |-> "container", Action |-> "start", created_by |-> NoLabel,
      name |-> <<"o", "t", "h", "e", "r">>],
     [Type |-> "container", Action |-> "die", created_by |-> NoLabel,
      name |-> <<"d", "m", "m">>],
     [Type |-> "container", Action |-> "exec_create", created_by |-> APP_CREATED_BY_LABEL,
      name |-> <<"w", "e", "b">>],
     [Type |-> "network", Action |-> "create", created_by |-> APP_CREATED_BY_LABEL,
      name |-> <<"d", "m", "m", "-", "n", "e", "t">>]}
NoEvent == [Type |-> "none", Action |-> "none", created_by |-> NoLabel, name |-> <<>>]
\* container_name.startswith(APP_CONTAINER_NAME_PREFIX).
StartsWithPrefix(name) ==
    /\ Len(name) >= Len(APP_CONTAINER_NAME_PREFIX)
    /\ SubSeq(name, 1, Len(APP_CONTAINER_NAME_PREFIX)) = APP_CONTAINER_NAME_PREFIX
\* l.452: the filter on type and action.
IsRelevant(event) == event.Type = "container" /\ event.Action \in relevant_events
\* l.460-463: is_app_container.
is_app_container_Any(event) == TRUE
is_app_container(event) ==
    event.created_by = APP_CREATED_BY_LABEL \/ StartsWithPrefix(event.name)

\* l.478-481: the debounce test on current_time - last_refresh_time.
Debounced_Off(gap) == FALSE
Debounced(gap) == gap < MIN_REFRESH_INTERVAL

\* l.533: the arguments of the refresh submission.
EventRefreshArgs == [on_done |-> FALSE, on_error |-> TRUE, tk_root |-> "none"]
EventRefreshBlock_Wait == TRUE
EventRefreshBlock == FALSE

\* The event in hand: the event, whether the observers were notified of it,
\* and current_time - last_refresh_time as read for it.
NoEventInHand == [event |-> NoEvent, notified |-> FALSE, gap |-> 0]
\* The elapsed time after one more tenth of a second; MIN_REFRESH_INTERVAL
\* stands for that long or longer.
Later(s) == IF s < MIN_REFRESH_INTERVAL THEN s + 1 ELSE s
\* What is kept of the events handled in this run: the last event that
\* triggered a refresh and, after it, the last event handled since.
Remember(h, entry) ==
    IF entry.submitted \/ h = <<>> THEN <<entry>> ELSE <<h[1], entry>>

NoRefreshLocals == [all |-> <<>>, k |-> 1, stats |-> <<>>]
restOfListener == <<subjectVars, aliasVars, singletonVars, scalerVars, lockVars, unitVars>>
restOfStream ==
    <<subjectVars, aliasVars, singletonVars, scalerVars, lockVars,
      holder, todo, probe, out, flowVars, queueVars>>
refreshVars == <<rpc, rloc>>
streamVars == <<lpc, ev, since_refresh, hist, _restart_count, consecutive>>

\* l.449: client.events(decode=True) is called: a run of the listener
\* subscribes to the stream, with last_refresh_time = 0.
l_subscribe ==
    /\ lpc = "subscribe"
    /\ lpc' = "wait"
    /\ since_refresh' = MIN_REFRESH_INTERVAL
    /\ hist' = <<>>
    /\ subscriptions' = subscriptions + 1
    /\ since_submit' = MIN_REFRESH_INTERVAL
    /\ UNCHANGED <<ev, _restart_count, consecutive, refreshVars>>
    /\ UNCHANGED <<workerVars, controllerVars, restOfStream>>

\* Time passes while the listener waits for the next event.
tick ==
    /\ lpc = "wait"
    /\ since_refresh < MIN_REFRESH_INTERVAL \/ since_submit < MIN_REFRESH_INTERVAL
    /\ since_refresh' = Later(since_refresh)
    /\ since_submit' = Later(since_submit)
    /\ UNCHANGED <<lpc, ev, hist, _restart_count, consecutive, refreshVars, subscriptions>>
    /\ UNCHANGED <<workerVars, controllerVars, restOfStream>>

\* l.449-470: the stream yields an event; events of another type or action
\* and events of foreign containers are passed over.
l_event(event) ==
    /\ lpc = "wait"
    /\ IF IsRelevant(event) /\ is_app_container(event)
       THEN /\ lpc' = "notify"
            /\ ev' = [NoEventInHand EXCEPT !.event = event]
       ELSE UNCHANGED <<lpc, ev>>
    /\ consecutive' = 0
    /\ UNCHANGED <<since_refresh, hist, _restart_count, refreshVars>>
    /\ UNCHANGED <<workerVars, controllerVars, restOfListener>>

\* l.475: controller.notify_docker_event(event).
l_notify ==
    /\ lpc = "notify"
    /\ ev' = [ev EXCEPT !.notified = TRUE]
    /\ lpc' = "debounce"
    /\ UNCHANGED <<since_refresh, hist, _restart_count, consecutive, refreshVars>>
    /\ UNCHANGED <<workerVars, controllerVars, restOfListener>>

\* l.478-483: the clock is read; within the interval the event is left at
\* that, otherwise last_refresh_time becomes current_time.
l_debounce ==
    /\ lpc = "debounce"
    /\ IF Debounced(since_refresh)
       THEN /\ hist' = Remember(hist, [gap |-> since_refresh, notified |-> ev.notified,
                                       submitted |-> FALSE])
            /\ ev' = NoEventInHand
            /\ lpc' = "wait"
            /\ UNCHANGED since_refresh
       ELSE /\ ev' = [ev EXCEPT !.gap = since_refresh]
            /\ since_refresh' = 0
            /\ lpc' = IF ev.event.Action \in {"create", "start"} THEN "settle" ELSE "submit"
            /\ UNCHANGED hist
    /\ UNCHANGED <<_restart_count, consecutive, refreshVars>>
    /\ UNCHANGED <<workerVars, controllerVars, restOfListener>>

\* l.489-491: time.sleep(0.1) for create and start events.
l_settle ==
    /\ lpc = "settle"
    /\ since_refresh' = Later(since_refresh)
    /\ since_submit' = Later(since_submit)
    /\ lpc' = "submit"
    /\ UNCHANGED <<ev, hist, _restart_count, consecutive, refreshVars, subscriptions>>
    /\ UNCHANGED <<workerVars, controllerVars, restOfStream>>

\* l.532-533: run_in_thread(_fetch_and_notify, on_done=None, on_error=...,
\* tk_root=None, block=False); the listener goes on when the call returns.
l_submit(c) ==
    /\ lpc = "submit"
    /\ run_in_thread_call(c, EventRefreshArgs, EventRefreshBlock)
    /\ hist' = Remember(hist, [gap |-> ev.gap, notified |-> ev.notified, submitted |-> TRUE])
    /\ ev' = NoEventInHand
    /\ lpc' = IF pc'[c] = "blocked" THEN "blocked" ELSE "wait"
    /\ since_submit' = 0
    /\ UNCHANGED <<since_refresh, _restart_count, consecutive, refreshVars, subscriptions>>
    /\ UNCHANGED <<controllerVars, restOfStream>>

\* l.449, 538: the stream raises.
l_stream_error ==
    /\ lpc = "wait"
    /\ lpc' = "except"
    /\ consecutive' = consecutive + 1
    /\ UNCHANGED <<ev, since_refresh, hist, _restart_count, refreshVars>>
    /\ UNCHANGED <<workerVars, controllerVars, restOfListener>>

\* l.449: the stream ends without an exception; the function returns.
l_stream_end ==
    /\ lpc = "wait"
    /\ lpc' = "returned"
    /\ UNCHANGED <<ev, since_refresh, hist, _restart_count, consecutive, refreshVars>>
    /\ UNCHANGED <<workerVars, controllerVars, restOfListener>>

\* A restart counter that starts from 0 in every handler.
l_except_Local ==
    /\ lpc = "except"
    /\ _restart_count' = 1
    /\ lpc' = IF 1 < max_restarts THEN "restart_sleep" ELSE "stopped"
    /\ UNCHANGED <<ev, since_refresh, hist, consecutive, refreshVars>>
    /\ UNCHANGED <<workerVars, controllerVars, restOfListener>>

\* l.539-554: the restart counter (a function attribute, created at 0 on
\* the first failure) is incremented; below max_restarts the listener will
\* restart, otherwise it logs at critical level and returns.
l_except ==
    /\ lpc = "except"
    /\ _restart_count' = _restart_count + 1
    /\ lpc' = IF _restart_count + 1 < max_restarts THEN "restart_sleep" ELSE "stopped"
    /\ UNCHANGED <<ev, since_refresh, hist, consecutive, refreshVars>>
    /\ UNCHANGED <<workerVars, controllerVars, restOfListener>>

\* l.549-551: time.sleep(5), then docker_events_listener() is called again.
l_restart ==
    /\ lpc = "restart_sleep"
    /\ lpc' = "subscribe"
    /\ UNCHANGED <<ev, since_refresh, hist, _restart_count, consecutive, refreshVars>>
    /\ UNCHANGED <<workerVars, controllerVars, restOfListener>>

\* _fetch_and_notify on the pool thread of call slot c, l.495-496: with
\* docker_lock.
r_lock(c) ==
    /\ pc[c] = "running"
    /\ rpc[c] = "start"
    /\ docker_lock = Free
    /\ docker_lock' = PoolThread(c)
    /\ rpc' = [rpc EXCEPT ![c] = "list"]
    /\ UNCHANGED <<config, world, mpc, mon, scaleLog, rloc>>
    /\ UNCHANGED <<streamVars, workerVars, controllerVars>>
    /\ UNCHANGED <<subjectVars, aliasVars, singletonVars, lockVars, unitVars>>

\* What ends _fetch_and_notify: the lock is given back and fn returns to
\* _task (it raises nothing: l.523-529 log every exception).
r_return(c) ==
    /\ docker_lock' = Free
    /\ rpc' = [rpc EXCEPT ![c] = "start"]
    /\ rloc' = [rloc EXCEPT ![c] = NoRefreshLocals]
    /\ _task_call(c, FALSE, "value")

\* l.498: client.containers.list(all=True), under the lock.
r_list(c, ok) ==
    /\ rpc[c] = "list"
    /\ IF ok /\ Listing(world) # <<>>
       THEN /\ rloc' = [rloc EXCEPT ![c] = [NoRefreshLocals EXCEPT !.all = Listing(world)]]
            /\ rpc' = [rpc EXCEPT ![c] = "stats"]
            /\ UNCHANGED <<docker_lock, workerVars, cache>>
       ELSE IF ok
       THEN /\ rpc' = [rpc EXCEPT ![c] = "publish"]
            /\ UNCHANGED <<rloc, docker_lock, workerVars, cache>>
       ELSE /\ r_return(c)
            /\ UNCHANGED cache
    /\ UNCHANGED <<config, world, mpc, mon, scaleLog>>
    /\ UNCHANGED <<streamVars, tpc, op, got, raisedOut, pos, wrote>>
    /\ UNCHANGED <<subjectVars, aliasVars, singletonVars, lockVars, unitVars>>

\* l.501-511: safe_get_stats on each listed container; None is left out.
r_stats(c, outcome) ==
    /\ rpc[c] = "stats"
    /\ outcome \in OutcomesFor(rloc[c].all[rloc[c].k])
    /\ LET s == get_container_stats(rloc[c].all[rloc[c].k], outcome)
       IN rloc' = [rloc EXCEPT ![c].stats = IF s = NoStats THEN @ ELSE Append(@, s),
                               ![c].k = @ + 1]
    /\ rpc' = [rpc EXCEPT ![c] = IF rloc[c].k = Len(rloc[c].all) THEN "publish" ELSE "stats"]
    /\ UNCHANGED <<scalerVars, streamVars, workerVars, controllerVars>>
    /\ UNCHANGED <<subjectVars, aliasVars, singletonVars, lockVars, unitVars>>

\* l.514-518: controller.update_containers(stats_list) (no observer is
\* attached in this specification), the offers to the GUI queues, and the
\* end of the with block.
r_publish(c) ==
    /\ rpc[c] = "publish"
    /\ cache' = [cache EXCEPT !["containers"] = SwapCache(@, ListValue(rloc[c].stats))]
    /\ r_return(c)
    /\ UNCHANGED <<config, world, mpc, mon, scaleLog>>
    /\ UNCHANGED <<streamVars, tpc, op, got, raisedOut, pos, wrote>>
    /\ UNCHANGED <<subjectVars, aliasVars, singletonVars, lockVars, unitVars>>

InitListener ==
    /\ lpc = "subscribe"
    /\ ev = NoEventInHand
    /\ since_refresh = MIN_REFRESH_INTERVAL
    /\ hist = <<>>
    /\ _restart_count = 0
    /\ consecutive = 0
    /\ rpc = [c \in Calls |-> "start"]
    /\ rloc = [c \in Calls |-> NoRefreshLocals]
    /\ subscriptions = 0
    /\ since_submit = MIN_REFRESH_INTERVAL

\* The listener thread.
ListenerStep ==
    \/ l_subscribe
    \/ \E event \in StreamEvents : l_event(event)
    \/ l_notify
    \/ l_debounce
    \/ l_settle
    \/ \E c \in Calls : l_submit(c)
    \/ l_stream_error
    \/ l_stream_end
    \/ l_except
    \/ l_restart

\* The listener thread and the clock: events, debounce, stream failures and
\* restarts (the submitted refreshes are left pending).
NextListener ==
    \/ ListenerStep
    \/ tick

\* A run of the listener with the task runner carrying out the refreshes.
NextRefresh ==
    \/ l_subscribe
    \/ \E event \in StreamEvents : l_event(event)
    \/ l_notify
    \/ l_debounce
    \/ l_settle
    \/ \E c \in Calls : l_submit(c)
    \/ tick
    \/ \E c \in Calls :
           \/ executor_submit(c)
           \/ worker_start(c)
           \/ r_lock(c)
           \/ \E ok \in BOOLEAN : r_list(c, ok)
           \/ \E outcome \in StatsOutcomes : r_stats(c, outcome)
           \/ r_publish(c)
           \/ _task_finally(c)

(***************************************************************************)
(* docker_controller.py and observer.py on the level of their locks: every *)
(* operation is the sequence of lock acquisitions, releases and observer   *)
(* invocations it makes.  The locks are threading.Lock objects, which are  *)
(* not reentrant: a thread that acquires a lock it holds waits for ever.   *)
(***************************************************************************)
\* docker_controller.py:58-61 and observer.py:40.
CacheLock(r) == "_" \o r \o "_lock"
CacheLocks == {CacheLock(r) : r \in ResourceSet}
ObserverLock == "_lock"
Locks == CacheLocks \cup {ObserverLock}
Unheld == "unheld"

Acquire(l) == [do |-> "acquire", lock |-> l]
Release(l) == [do |-> "release", lock |-> l]
Invoke == [do |-> "update", lock |-> "none"]
\* with lock: <body>, the body touching the guarded data only.
Locked(l) == <<Acquire(l), Release(l)>>

RECURSIVE Times(_, _)
Times(q, n) == IF n = 0 THEN <<>> ELSE q \o Times(q, n - 1)
RECURSIVE LockedEach(_)
LockedEach(rs) == IF rs = <<>> THEN <<>> ELSE Locked(CacheLock(Head(rs))) \o LockedEach(Tail(rs))

\* Subject.notifyObservers, observer.py:76-106: the copy under the lock, n
\* observers invoked, and the removal under the lock when one has raised.
notifyObservers(n, raised) ==
    Locked(ObserverLock) \o Times(<<Invoke>>, n) \o (IF raised THEN Locked(ObserverLock) ELSE <<>>)

\* update_<resource>, docker_controller.py:82-85.
update_program_NotifyInside(r, n, raised) ==
    <<Acquire(CacheLock(r))>> \o notifyObservers(n, raised) \o <<Release(CacheLock(r))>>

update_program(r, n, raised) == Locked(CacheLock(r)) \o notifyObservers(n, raised)
\* get_<resource>, find_*, filter_containers_by_criteria,
\* compute_resource_metrics: docker_controller.py:95-96, 389-456, 493-501, 603.
get_program(r) == Locked(CacheLock(r))
\* attach, detach, get_observer_count: observer.py:48, 62, 115.
attach_program == Locked(ObserverLock)
\* clear_all_caches, docker_controller.py:297-304, and search_resources, l.566-594.
clear_program == LockedEach(Resources)
\* update_all_resources, docker_controller.py:344-374.
batch_program(rs, n, raised) ==
    LockedEach(rs) \o (IF rs # <<>> THEN notifyObservers(n, raised) ELSE <<>>)
\* get_stats, docker_controller.py:315-321: the caches are read without
\* their locks, get_observer_count takes the observer lock.
get_stats_program == Locked(ObserverLock)

\* How many observers a pass invokes, and whether one of them raised.
Passes == {<<n, raised>> \in (0..Cardinality(Observers)) \X BOOLEAN : raised => n > 0}
\* What an observer's update may call on the controller.
ObserverCalls == {<<>>, attach_program} \cup {get_program(r) : r \in InPlay}
\* What the threads call.
Programs ==
    {update_program(r, p[1], p[2]) : r \in InPlay, p \in Passes}
    \cup {get_program(r) : r \in InPlay}
    \cup {attach_program, clear_program, get_stats_program}
    \cup {batch_program(rs, p[1], p[2]) : rs \in {<<>>, <<"containers">>, <<"containers", "volumes">>}, p \in Passes}
    \cup {notifyObservers(p[1], p[2]) : p \in Passes}

\* A thread enters an operation of the controller.
c_call(t, program) ==
    /\ todo[t] = <<>>
    /\ program # <<>>
    /\ todo' = [todo EXCEPT ![t] = program]
    /\ UNCHANGED holder
    /\ UNCHANGED <<workerVars, subjectVars, controllerVars, aliasVars, singletonVars>>
    /\ UNCHANGED <<scalerVars, lockVars, listenerVars, probe, out, flowVars, queueVars, countVars>>

\* Lock.acquire(): taken when no thread holds the lock, the caller included.
c_acquire(t) ==
    /\ todo[t] # <<>>
    /\ Head(todo[t]).do = "acquire"
    /\ holder[Head(todo[t]).lock] = Unheld
    /\ holder' = [holder EXCEPT ![Head(todo[t]).lock] = t]
    /\ todo' = [todo EXCEPT ![t] = Tail(@)]
    /\ UNCHANGED <<workerVars, subjectVars, controllerVars, aliasVars, singletonVars>>
    /\ UNCHANGED <<scalerVars, lockVars, listenerVars, probe, out, flowVars, queueVars, countVars>>

\* The end of the with block: the body is done and the lock is released.
c_release(t) ==
    /\ todo[t] # <<>>
    /\ Head(todo[t]).do = "release"
    /\ holder' = [holder EXCEPT ![Head(todo[t]).lock] = Unheld]
    /\ todo' = [todo EXCEPT ![t] = Tail(@)]
    /\ UNCHANGED <<workerVars, subjectVars, controllerVars, aliasVars, singletonVars>>
    /\ UNCHANGED <<scalerVars, lockVars, listenerVars, probe, out, flowVars, queueVars, countVars>>

\* observer.update(self, notification_data), observer.py:90: the observer
\* runs on the notifying thread and may call back into the controller.
c_update(t, inner) ==
    /\ todo[t] # <<>>
    /\ Head(todo[t]).do = "update"
    /\ todo' = [todo EXCEPT ![t] = inner \o Tail(@)]
    /\ UNCHANGED holder
    /\ UNCHANGED <<workerVars, subjectVars, controllerVars, aliasVars, singletonVars>>
    /\ UNCHANGED <<scalerVars, lockVars, listenerVars, probe, out, flowVars, queueVars, countVars>>

InitLocking ==
    /\ holder = [l \in Locks |-> Unheld]
    /\ todo = [t \in Threads |-> <<>>]

NextLocking ==
    \E t \in Threads :
        \/ \E program \in Programs : c_call(t, program)
        \/ c_acquire(t)
        \/ c_release(t)
        \/ \E inner \in ObserverCalls : c_update(t, inner)

(***************************************************************************)
(* docker_utils.py: calculate_cpu_percent, calculate_ram_percent and       *)
(* get_container_stats as functions of the handle and of what the runtime  *)
(* answers to container.stats(stream=False).                               *)
(***************************************************************************)
\* The counters of a stats answer take the values 0..MaxCounter.
MaxCounter == 2
\* A field of the stats dict: absent, null, or a number.
Missing == [kind |-> "missing", v |-> 0]
Null == [kind |-> "null", v |-> 0]
Num(n) == [kind |-> "num", v |-> n]
Vals == {Missing, Null} \cup {Num(n) : n \in 0..MaxCounter}

\* Python floats, as fractions.
Rat(n, d) == [num |-> n, den |-> d]
Zero == Rat(0, 1)
\* f"{x:.2f}" of a non-negative x, in hundredths.
TwoDecimals(x) == (2 * 100 * x.num + x.den) \div (2 * x.den)

\* What a call returns or raises.
Returned(x) == [raised |-> "none", value |-> x]
Raised(exc) == [raised |-> exc, value |-> Zero]

\* l.79: the guard of the division.
DeltasPositive_CpuOnly(cpu_delta, system_delta) == cpu_delta > 0

DeltasPositive(cpu_delta, system_delta) == system_delta > 0 /\ cpu_delta > 0

\* calculate_cpu_percent, l.65-87.  A missing counter is a KeyError and a
\* null one a TypeError in the subtraction, both caught (l.85); online_cpus
\* is read with .get('online_cpus', 1).
calculate_cpu_percent(stats) ==
    LET counters == {stats.cpu_current, stats.cpu_prev, stats.system_current, stats.system_prev}
        cpu_delta == stats.cpu_current.v - stats.cpu_prev.v
        system_delta == stats.system_current.v - stats.system_prev.v
        num_cpus == IF stats.online_cpus = Missing THEN Num(1) ELSE stats.online_cpus
    IN IF \E c \in counters : c.kind # "num" THEN Returned(Zero)
       ELSE IF DeltasPositive(cpu_delta, system_delta)
       THEN IF system_delta = 0 THEN Raised("ZeroDivisionError")
            ELSE IF num_cpus = Null THEN Returned(Zero)
            ELSE Returned(Rat(cpu_delta * num_cpus.v * 100, system_delta))
       ELSE Returned(Zero)

\* calculate_ram_percent, l.90-98.  stats['memory_stats'] absent is a
\* KeyError (caught); memory_stats that is no dict has no .get
\* (AttributeError, not caught); usage and limit default to 0 and 1; a null
\* operand is a TypeError (caught); a limit of 0 is a ZeroDivisionError (not
\* caught).
calculate_ram_percent(stats) ==
    LET mem_usage == IF stats.usage = Missing THEN Num(0) ELSE stats.usage
        mem_limit == IF stats.limit = Missing THEN Num(1) ELSE stats.limit
    IN IF stats.memory_stats = "missing" THEN Returned(Zero)
       ELSE IF stats.memory_stats # "dict" THEN Raised("AttributeError")
       ELSE IF mem_usage = Null \/ mem_limit = Null THEN Returned(Zero)
       ELSE IF mem_limit.v = 0 THEN Raised("ZeroDivisionError")
       ELSE Returned(Rat(mem_usage.v * 100, mem_limit.v))

\* The handle passed in: None, a container object, or an object whose
\* status cannot be read.
NoHandle == [kind |-> "None", id |-> "unknown", name |-> "unknown", status |-> "error"]
HandleStatuses == {"running", "exited", "paused", "created"}
Handles ==
    {NoHandle}
    \cup [kind : {"container", "broken"}, id : {"ab12"}, name : {"web"}, status : HandleStatuses]

\* What the runtime does on container.stats(stream=False).
StatsDicts ==
    [cpu_current : {Num(2), Missing}, cpu_prev : {Num(0)},
     system_current : {Num(2)}, system_prev : {Num(1)}, online_cpus : {Num(1)},
     memory_stats : {"dict"}, usage : Vals, limit : Vals]
    \cup [cpu_current : {Num(2)}, cpu_prev : {Num(0)},
          system_current : {Num(2)}, system_prev : {Num(1)}, online_cpus : {Num(1)},
          memory_stats : {"missing", "list"}, usage : {Missing}, limit : {Missing}]
NoStatsDict ==
    [cpu_current |-> Missing, cpu_prev |-> Missing, system_current |-> Missing,
     system_prev |-> Missing, online_cpus |-> Missing, memory_stats |-> "missing",
     usage |-> Missing, limit |-> Missing]
Answers ==
    {[kind |-> k, stats |-> NoStatsDict] : k \in {"NotFound", "APIError"}}
    \cup {[kind |-> "stats", stats |-> s] : s \in StatsDicts}

\* The snapshot dicts, with the number of stats calls made to the runtime.
Snapshot(handle, cpu, ram, n) ==
    [ret |-> "dict", id |-> handle.id, name |-> handle.name, status |-> handle.status,
     cpu |-> cpu, ram |-> ram, calls |-> n]
Unknown(n) ==
    [ret |-> "dict", id |-> "unknown", name |-> "unknown", status |-> "error",
     cpu |-> 0, ram |-> 0, calls |-> n]
Removed(n) ==
    [ret |-> "None", id |-> "unknown", name |-> "unknown", status |-> "removed",
     cpu |-> 0, ram |-> 0, calls |-> n]
NotCalled == [ret |-> "none", id |-> "unknown", name |-> "unknown", status |-> "none",
              cpu |-> 0, ram |-> 0, calls |-> 0]

\* l.116: stats are fetched for running containers only.
NeedsStats_UnlessExited(status) == status # "exited"

NeedsStats(status) == status = "running"

\* l.141-160: the handler of any other exception returns the basic info,
\* and the unknown snapshot when that cannot be read either.
BasicInfo(handle, n) ==
    IF handle.kind = "broken" THEN Unknown(n) ELSE Snapshot(handle, 0, 0, n)

\* get_container_stats, l.101-160.
StatsOf(handle, answer) ==
    IF handle.kind = "None" THEN Unknown(0)
    ELSE IF handle.kind = "broken" THEN BasicInfo(handle, 0)
    ELSE IF ~NeedsStats(handle.status) THEN Snapshot(handle, 0, 0, 0)
    ELSE IF answer.kind = "NotFound" THEN Removed(1)
    ELSE IF answer.kind = "APIError" THEN BasicInfo(handle, 1)
    ELSE LET cpu == calculate_cpu_percent(answer.stats)
             ram == calculate_ram_percent(answer.stats)
         IN IF cpu.raised # "none" \/ ram.raised # "none" THEN BasicInfo(handle, 1)
            ELSE Snapshot(handle, TwoDecimals(cpu.value), TwoDecimals(ram.value), 1)

NoProbe == [fn |-> "none", handle |-> NoHandle, answer |-> [kind |-> "none", stats |-> NoStatsDict]]
NoResult == [snapshot |-> NotCalled, cpu |-> Returned(Zero)]

\* One call of get_container_stats, with any handle and any answer.
s_get_container_stats(handle, answer) ==
    /\ probe = NoProbe
    /\ probe' = [fn |-> "get_container_stats", handle |-> handle, answer |-> answer]
    /\ out' = [snapshot |-> StatsOf(handle, answer), cpu |-> Returned(Zero)]
    /\ UNCHANGED holder
    /\ UNCHANGED todo
    /\ UNCHANGED <<flowVars, queueVars, countVars>>
    /\ UNCHANGED <<workerVars, subjectVars, controllerVars, aliasVars, singletonVars>>
    /\ UNCHANGED <<scalerVars, lockVars, listenerVars>>

\* The stats dicts calculate_cpu_percent is called with.
CpuInputs ==
    [cpu_current : Vals, cpu_prev : Vals, system_current : Vals, system_prev : Vals,
     online_cpus : Vals, memory_stats : {"missing"}, usage : {Missing}, limit : {Missing}]

\* One call of calculate_cpu_percent, with any stats dict.
s_calculate_cpu_percent(stats) ==
    /\ probe = NoProbe
    /\ probe' = [fn |-> "calculate_cpu_percent", handle |-> NoHandle,
                 answer |-> [kind |-> "stats", stats |-> stats]]
    /\ out' = [snapshot |-> NotCalled, cpu |-> calculate_cpu_percent(stats)]
    /\ UNCHANGED holder
    /\ UNCHANGED todo
    /\ UNCHANGED <<flowVars, queueVars, countVars>>
    /\ UNCHANGED <<workerVars, subjectVars, controllerVars, aliasVars, singletonVars>>
    /\ UNCHANGED <<scalerVars, lockVars, listenerVars>>

InitStats ==
    /\ probe = NoProbe
    /\ out = NoResult

NextStats ==
    \/ \E handle \in Handles, answer \in Answers : s_get_container_stats(handle, answer)
    \/ \E stats \in CpuInputs : s_calculate_cpu_percent(stats)

(***************************************************************************)
(* The three threads that publish the container list:                      *)
(*   docker_utils.py       monitor_thread (the polling loop) and           *)
(*                         _fetch_and_notify (the refresh after an event), *)
(*   container_manager.py  _perform_action (a manual container action).    *)
(* Each is a straight-line program of steps; a step is one runtime call,   *)
(* one lock operation or one call into the controller.  The runtime holds  *)
(* one container; 'changes' counts how often its state changed, and a      *)
(* listing remembers the count it was taken at.                            *)
(***************************************************************************)
\* How often the container's state changes in a behaviour.
MaxChanges == 2

Publishers == {"monitor_thread", "_fetch_and_notify", "_perform_action"}

\* The thread a publisher runs on: the monitor thread, or a pool thread.
ThreadOf(p) ==
    CASE p = "monitor_thread" -> MonitorThread
      [] p = "_perform_action" -> PoolThread(1)
      [] p = "_fetch_and_notify" -> PoolThread(2)

ManualActions == {"stop", "start", "remove"}
NoRequest == "<none>"

\* client.containers.list(all=True), then the stats of each container:
\* the payload holds one entry per container the runtime has.
ListingOf(rt) ==
    [items |-> IF rt.state = "absent" THEN <<>> ELSE <<[name |-> "web", status |-> rt.state]>>,
     epoch |-> rt.changes]
\* fetch_all_stats answers [] when its listing raised.
EmptyListing(rt) == [items |-> <<>>, epoch |-> rt.changes]

\* A polling loop that samples and scales but does not publish.
monitor_thread_NoPublish == <<"lock", "list", "unlock", "sample">>
\* docker_utils.py:352-426, one iteration: docker_lock covers the listing only.
monitor_thread == <<"lock", "list", "unlock", "sample", "update", "notify">>
\* docker_utils.py:495-529: docker_lock covers the whole body.
_fetch_and_notify == <<"lock", "list", "sample", "update", "notify", "unlock">>
\* container_manager.py:250-264: docker_lock covers the listing and the sampling.
fetch_all_stats == <<"lock", "fetch_list", "sample", "unlock">>
\* The same action with the refresh made before the notification of the action.
_perform_action_RefreshFirst ==
    <<"lock", "runtime", "unlock">> \o fetch_all_stats
        \o <<"update", "notify", "notify_action">>

\* container_manager.py:41-62.
_perform_action ==
    <<"lock", "runtime", "unlock", "notify_action", "if_success">>
        \o fetch_all_stats \o <<"update", "notify">>
ProgramOf(p) ==
    CASE p = "monitor_thread" -> monitor_thread
      [] p = "_fetch_and_notify" -> _fetch_and_notify
      [] p = "_perform_action" -> _perform_action

Idle == [todo |-> <<>>, listed |-> EmptyListing([changes |-> 0]), success |-> FALSE,
         request |-> NoRequest, log |-> <<>>]

\* The locals die with the call; what a manual action did stays on record
\* (request, success, log) until the next one begins.
Returned_(f) == IF f.todo = <<>> THEN [f EXCEPT !.listed = Idle.listed] ELSE f
\* The record is kept for the manual action only.
Logged(p, f, entry) == IF p = "_perform_action" THEN [f EXCEPT !.log = Append(@, entry)] ELSE f

restOfFlows ==
    <<workerVars, subjectVars, controllerVars, aliasVars, singletonVars,
      config, world, mpc, mon, scaleLog, lockVars, listenerVars,
      holder, todo, probe, out, queueVars, countVars>>

Next_(p) == IF flow[p].todo = <<>> THEN "idle" ELSE Head(flow[p].todo)

\* The thread begins its program: the loop its next iteration, the pool
\* thread the task the events listener or the GUI submitted.
f_begin(p, a) ==
    /\ flow[p].todo = <<>>
    /\ (p = "_perform_action") = (a # NoRequest)
    /\ flow' = [flow EXCEPT ![p] = [Idle EXCEPT !.todo = ProgramOf(p), !.request = a]]
    /\ UNCHANGED <<runtime, shown, docker_lock, restOfFlows>>

\* with docker_lock: (a threading.Lock, so its own holder waits as well)
f_lock(p) ==
    /\ Next_(p) = "lock"
    /\ docker_lock = Free
    /\ docker_lock' = ThreadOf(p)
    /\ flow' = [flow EXCEPT ![p].todo = Tail(@)]
    /\ UNCHANGED <<runtime, shown, restOfFlows>>

f_unlock(p) ==
    /\ Next_(p) = "unlock"
    /\ docker_lock' = Free
    /\ flow' = [flow EXCEPT ![p] = Returned_([@ EXCEPT !.todo = Tail(@)])]
    /\ UNCHANGED <<runtime, shown, restOfFlows>>

\* client.containers.list(all=True) in the loop and in the refresh; when
\* it raises, the handler of the body logs and the with statement gives
\* the lock back.
f_list(p, raises) ==
    /\ Next_(p) = "list"
    /\ IF raises
       THEN /\ flow' = [flow EXCEPT ![p] = Returned_([@ EXCEPT !.todo = <<>>])]
            /\ docker_lock' = Free
       ELSE /\ flow' = [flow EXCEPT ![p].todo = Tail(@), ![p].listed = ListingOf(runtime)]
            /\ UNCHANGED docker_lock
    /\ UNCHANGED <<runtime, shown, restOfFlows>>

\* The listing of fetch_all_stats: when it raises the function answers []
\* and makes no sampling.
f_fetch_list(p, raises) ==
    /\ Next_(p) = "fetch_list"
    /\ flow' = IF raises
               THEN [flow EXCEPT ![p].todo = Tail(Tail(@)), ![p].listed = EmptyListing(runtime)]
               ELSE [flow EXCEPT ![p].todo = Tail(@), ![p].listed = ListingOf(runtime)]
    /\ UNCHANGED <<runtime, shown, docker_lock, restOfFlows>>

\* get_container_stats of each listed container: a container that is gone
\* by now has no stats and is left out of the payload.
f_sample(p) ==
    /\ Next_(p) = "sample"
    /\ flow' = [flow EXCEPT ![p].todo = Tail(@),
                            ![p].listed.items = IF runtime.state = "absent" THEN <<>> ELSE @]
    /\ UNCHANGED <<runtime, shown, docker_lock, restOfFlows>>

\* What the action makes of the container's state.
After(a, state) ==
    CASE a = "stop" -> "exited"
      [] a = "start" -> "running"
      [] a = "remove" -> "absent"

\* client.containers.get(name) and the action on it; either may raise, and
\* get raises for a container that is gone.
f_runtime(p, raises) ==
    /\ Next_(p) = "runtime"
    /\ runtime.state = "absent" => raises
    /\ runtime.changes >= MaxChanges => raises
    /\ flow' = [flow EXCEPT ![p].todo = Tail(@), ![p].success = ~raises]
    /\ runtime' = IF raises \/ After(flow[p].request, runtime.state) = runtime.state
                  THEN runtime
                  ELSE [state |-> After(flow[p].request, runtime.state),
                        changes |-> runtime.changes + 1]
    /\ UNCHANGED <<shown, docker_lock, restOfFlows>>

\* controller.notify_container_action(action, container_name, success, error_msg)
f_notify_action(p) ==
    /\ Next_(p) = "notify_action"
    /\ flow' = [flow EXCEPT ![p] = Logged(p, [@ EXCEPT !.todo = Tail(@)],
                                           [event |-> "container_action",
                                            action |-> flow[p].request,
                                            container_name |-> "web",
                                            success |-> flow[p].success])]
    /\ UNCHANGED <<runtime, shown, docker_lock, restOfFlows>>

\* if success:
f_if_success(p) ==
    /\ Next_(p) = "if_success"
    /\ flow' = [flow EXCEPT ![p] = Returned_([@ EXCEPT !.todo = IF flow[p].success THEN Tail(@) ELSE <<>>])]
    /\ UNCHANGED <<runtime, shown, docker_lock, restOfFlows>>

\* controller.update_containers(payload), the assignment to the cache.
f_update(p) ==
    /\ Next_(p) = "update"
    /\ shown' = flow[p].listed
    /\ flow' = [flow EXCEPT ![p] = Logged(p, [@ EXCEPT !.todo = Tail(@)],
                                           [event |-> "cache replaced"])]
    /\ UNCHANGED <<runtime, docker_lock, restOfFlows>>

\* ... and its notifyObservers('containers_updated', ...).  The observer's
\* update either returns, or first asks fetch_all_stats for the list on this
\* thread.  That call changes nothing when it gets docker_lock (it waits
\* while another thread holds it, and its answer stays with the observer);
\* when this thread holds docker_lock itself, the call stays before its
\* "lock" step.
f_notify(p, asks) ==
    /\ Next_(p) = "notify"
    /\ flow' = [flow EXCEPT ![p] =
                   Returned_(Logged(p, [@ EXCEPT !.todo = IF asks /\ docker_lock = ThreadOf(p)
                                                           THEN fetch_all_stats \o Tail(@)
                                                           ELSE Tail(@)],
                                    [event |-> "containers_updated"]))]
    /\ UNCHANGED <<runtime, shown, docker_lock, restOfFlows>>

\* The container's state changes outside the program (docker CLI, an exit).
runtime_changes(state) ==
    /\ runtime.changes < MaxChanges
    /\ state # runtime.state
    /\ runtime' = [state |-> state, changes |-> runtime.changes + 1]
    /\ UNCHANGED <<flow, shown, docker_lock, restOfFlows>>

InitFlows ==
    /\ runtime = [state |-> "running", changes |-> 0]
    /\ flow = [p \in Publishers |-> Idle]
    /\ shown = ListingOf([state |-> "running", changes |-> 0])

FlowStep(p, asks) ==
    \/ \E a \in ManualActions \cup {NoRequest} : f_begin(p, a)
    \/ f_lock(p)
    \/ f_unlock(p)
    \/ \E raises \in BOOLEAN : f_list(p, raises)
    \/ \E raises \in BOOLEAN : f_fetch_list(p, raises)
    \/ f_sample(p)
    \/ \E raises \in BOOLEAN : f_runtime(p, raises)
    \/ f_notify_action(p)
    \/ f_if_success(p)
    \/ f_update(p)
    \/ f_notify(p, asks)

NextFlows ==
    \/ \E p \in Publishers, asks \in BOOLEAN : FlowStep(p, asks)
    \/ \E state \in {"running", "exited", "absent"} : runtime_changes(state)

\* The polling loop and the event refresh alone, with observers that return
\* at once; the container changes outside the program only.
PollingStep(p) ==
    \/ f_begin(p, NoRequest)
    \/ f_lock(p)
    \/ f_unlock(p)
    \/ \E raises \in BOOLEAN : f_list(p, raises)
    \/ f_sample(p)
    \/ f_update(p)
    \/ f_notify(p, FALSE)

NextPolling ==
    \/ \E p \in {"monitor_thread", "_fetch_and_notify"} : PollingStep(p)
    \/ \E state \in {"running", "exited", "absent"} : runtime_changes(state)

\* The polling loop is a daemon thread in 'while True' with time.sleep
\* between iterations (docker_utils.py:352, 428): it always takes its next
\* step, and it gets docker_lock when the lock is free again and again.  A
\* refresh task that began runs on a pool thread to its end; whether one
\* begins at all is up to the events listener.
PollingFairness ==
    /\ WF_vars(PollingStep("monitor_thread"))
    /\ SF_vars(f_lock("monitor_thread"))
    /\ WF_vars(f_lock("_fetch_and_notify") \/ f_unlock("_fetch_and_notify")
                  \/ (\E raises \in BOOLEAN : f_list("_fetch_and_notify", raises))
                  \/ f_sample("_fetch_and_notify") \/ f_update("_fetch_and_notify")
                  \/ f_notify("_fetch_and_notify", FALSE))

(***************************************************************************)
(* docker_utils.py: _offer_latest on the bounded stats_queue.  Its two     *)
(* producers are the polling loop (outside docker_lock) and the refresh    *)
(* task of the events listener; each queue.Queue call is atomic, the three *)
(* calls of one _offer_latest are not.                                     *)
(***************************************************************************)
\* docker_utils.py:41 gives stats_queue maxsize=5; the model scales it down.
QueueSize == 2
\* How many payloads one producer offers in a behaviour.
MaxOffers == 3

Producers == {"monitor_thread", "_fetch_and_notify"}

NotOffering == [at |-> "idle", item |-> 0, kept |-> TRUE]

Full(q) == Len(q) >= QueueSize

restOfQueues ==
    <<workerVars, subjectVars, controllerVars, aliasVars, singletonVars,
      scalerVars, lockVars, listenerVars, holder, todo, probe, out, flowVars, countVars>>

\* _offer_latest(stats_queue, item, "stats") is called with a fresh payload.
o_call(p) ==
    /\ offer[p].at = "idle"
    /\ offer[p].item < MaxOffers
    /\ offer' = [offer EXCEPT ![p] = [at |-> "put", item |-> offer[p].item + 1, kept |-> FALSE]]
    /\ UNCHANGED <<queues, restOfQueues>>

\* q.put_nowait(item): enqueues and the function returns, or raises queue.Full.
o_put(p) ==
    /\ offer[p].at = "put"
    /\ IF Full(queues)
       THEN /\ offer' = [offer EXCEPT ![p].at = "get"]
            /\ UNCHANGED queues
       ELSE /\ queues' = Append(queues, [by |-> p, item |-> offer[p].item])
            /\ offer' = [offer EXCEPT ![p].at = "idle", ![p].kept = TRUE]
    /\ UNCHANGED restOfQueues

\* q.get_nowait() in the handler of queue.Full; queue.Empty is passed over.
o_get(p) ==
    /\ offer[p].at = "get"
    /\ queues' = IF queues = <<>> THEN queues ELSE Tail(queues)
    /\ offer' = [offer EXCEPT ![p].at = "put_again"]
    /\ UNCHANGED restOfQueues

\* The second q.put_nowait(item); on queue.Full the update is dropped
\* ("queue saturated; dropping update") and the function returns.
o_put_again(p) ==
    /\ offer[p].at = "put_again"
    /\ IF Full(queues)
       THEN /\ offer' = [offer EXCEPT ![p].at = "idle"]
            /\ UNCHANGED queues
       ELSE /\ queues' = Append(queues, [by |-> p, item |-> offer[p].item])
            /\ offer' = [offer EXCEPT ![p].at = "idle", ![p].kept = TRUE]
    /\ UNCHANGED restOfQueues

InitQueues ==
    /\ queues = <<>>
    /\ offer = [p \in Producers |-> NotOffering]

NextQueues ==
    \E p \in Producers : o_call(p) \/ o_put(p) \/ o_get(p) \/ o_put_again(p)

Init ==
    /\ InitWorker /\ InitController /\ InitAlias /\ InitSingleton
    /\ InitScaler /\ InitLock /\ InitListener /\ InitLocking /\ InitStats
    /\ InitFlows /\ InitQueues

SpecFlows == Init /\ [][NextFlows]_vars
SpecQueues == Init /\ [][NextQueues]_vars
SpecPolling == Init /\ [][NextPolling]_vars /\ PollingFairness
SpecWorker == Init /\ [][NextWorker]_vars
\* The pool and the Tk loop keep running: a queued task is started, a started
\* task returns or raises and gives its permit back, a submission goes through
\* or fails, a waiting acquire that can take a permit is not left waiting
\* with the permit free for ever.  Nothing is assumed of the callers.
\* The callers of prune_images (image_manager.py:264) and their like: no
\* on_done, no tk_root, one caller more than there are permits.
Waiters == 1..(_MAX_PENDING + 1)
NoTkRoot == {a \in FireAndForget : a.tk_root = "none"}
NextBlocking ==
    \E c \in Waiters :
        \/ \E a \in NoTkRoot, block \in BOOLEAN : run_in_thread(c, a, block)
        \/ acquire_blocking(c)
        \/ executor_submit(c)
        \/ executor_submit_fails(c)
        \/ worker_start(c)
        \/ \E r \in Results : _task(c, FALSE, r)
        \/ \E e \in TaskErrors : _task(c, TRUE, e)
        \/ _task_finally(c)
\* The pool keeps running: a queued task is started, a started task returns
\* or raises and gives its permit back, a submission goes through or fails,
\* and a waiting acquire is not left waiting with the permit free for ever.
\* Nothing is assumed of the callers.
SpecBlocking ==
    /\ Init /\ [][NextBlocking]_vars
    /\ \A c \in Waiters :
        /\ WF_vars(acquire_blocking(c))
        /\ WF_vars(executor_submit(c) \/ executor_submit_fails(c))
        /\ WF_vars(worker_start(c))
        /\ WF_vars(\E r \in Results : _task(c, FALSE, r) \/ \E e \in TaskErrors : _task(c, TRUE, e))
        /\ WF_vars(_task_finally(c))
SpecSubject == Init /\ [][NextSubject]_vars
SpecController == Init /\ [][NextController]_vars
SpecAlias == Init /\ [][NextAlias]_vars
SpecSingleton == Init /\ [][NextSingleton]_vars
SpecScaler == Init /\ [][NextScaler]_vars
SpecLock == Init /\ [][NextLock]_vars
SpecListener == Init /\ [][NextListener]_vars
SpecRefresh == Init /\ [][NextRefresh]_vars
SpecLocking == Init /\ [][NextLocking]_vars
\* Calls with and without on_done, on_error and tk_root, whose function
\* returns a value or None or raises, and whose callbacks may raise.
NextCallbacks ==
    \E c \in Waiters :
        \/ \E a \in CallArgs : run_in_thread(c, a, FALSE)
        \/ executor_submit(c)
        \/ executor_submit_fails(c)
        \/ worker_start(c)
        \/ \E r \in Returns, cbRaises \in BOOLEAN : _task_cb(c, FALSE, r, cbRaises)
        \/ \E e \in TaskErrors, cbRaises \in BOOLEAN : _task_cb(c, TRUE, e, cbRaises)
        \/ _task_finally(c)
        \/ tk_mainloop(c)
SpecCallbacks == Init /\ [][NextCallbacks]_vars
SpecStats == Init /\ [][NextStats]_vars
\* The polling thread keeps running: every step of the loop that can be taken
\* is taken, and time.sleep returns.
SpecScalerFair == SpecScaler /\ WF_vars(MonitorStep)

(***************************************************************************)
(* Claims about the bounded task runner (checked under SpecWorker).        *)
(***************************************************************************)
\* The calls that hold a permit: accepted and not finished.
Holding == {c \in Calls : pc[c] \in {"acquired", "queued", "running", "finally"}}
PendingCount == _MAX_PENDING - semValue
\* Every callback of call c, run already or still posted to Tk.
AllCallbacks(c) == cbq[c].delivered \o cbq[c].pending

\* C1: in every interleaving of blocking and non-blocking submissions and of
\* completions, the number of accepted-but-unfinished tasks equals the number
\* of permits taken and lies in 0.._MAX_PENDING.
C1_PendingBounded ==
    /\ PendingCount \in 0.._MAX_PENDING
    /\ Cardinality(Holding) = PendingCount

\* C1 witness: every permit is taken and one more call has been turned away
\* or is waiting.
C1_Witness ==
    /\ PendingCount = _MAX_PENDING
    /\ \E c \in Calls : pc[c] = "rejected"
    /\ Cardinality(Holding) = _MAX_PENDING

\* C2: a call that took a permit gives it back exactly once on each exit path
\* (fn returned, fn raised, submit failed), a call that took none gives none
\* back; so with no accepted task unfinished every permit is free, and a
\* non-blocking submission made then is accepted.
C2_PermitState ==
    /\ \A c \in Calls :
          /\ pc[c] \in {"done", "submit_failed"} => acquired[c] = 1 /\ released[c] = 1
          /\ c \in Holding => acquired[c] = 1 /\ released[c] = 0
          /\ pc[c] \in {"idle", "blocked", "rejected"} => acquired[c] = 0 /\ released[c] = 0
    /\ (Holding = {} => semValue = _MAX_PENDING)

C2_LaterAccepted ==
    \A c \in Calls, a \in FireAndForget :
        (Holding = {} /\ run_in_thread(c, a, FALSE)) => pc'[c] = "acquired"

C2_PermitReleasedOnce == []C2_PermitState /\ [][C2_LaterAccepted]_vars

\* C2 witness: one task raised and is done, another call failed in submit,
\* and every permit is free again.
C2_Witness ==
    /\ semValue = _MAX_PENDING
    /\ \E c, d \in Calls :
          /\ pc[c] = "done"
          /\ cbq[c].delivered = <<[cb |-> "on_error", arg |-> "TaskError"]>>
          /\ pc[d] = "submit_failed"

\* C3: a non-blocking call made while every permit is taken never runs its
\* function, takes and gives back no permit, and on_error, when supplied, is
\* invoked exactly once, with a TaskQueueFull; no task body's exception and
\* no submit failure is reported as TaskQueueFull.
C3_RejectedState ==
    \A c \in Calls :
        /\ pc[c] = "rejected" =>
              /\ fnRuns[c] = 0
              /\ acquired[c] = 0 /\ released[c] = 0
              /\ AllCallbacks(c) =
                    IF call[c].on_error
                    THEN <<[cb |-> "on_error", arg |-> TaskQueueFull]>>
                    ELSE <<>>
        /\ pc[c] # "rejected" =>
              \A i \in 1..Len(AllCallbacks(c)) : AllCallbacks(c)[i].arg # TaskQueueFull

C3_RejectStep ==
    \A c \in Calls, a \in FireAndForget :
        (semValue = 0 /\ run_in_thread(c, a, FALSE)) =>
            /\ pc'[c] = "rejected"
            /\ semValue' = semValue
            /\ fnRuns'[c] = 0

C3_QueueFullRejection == []C3_RejectedState /\ [][C3_RejectStep]_vars

\* C3 witness: a rejected call whose on_error has run with TaskQueueFull on
\* the Tk loop, while the permits are all still taken.
C3_Witness ==
    \E c \in Calls :
        /\ pc[c] = "rejected"
        /\ call[c].tk_root = "ok"
        /\ cbq[c].delivered = <<[cb |-> "on_error", arg |-> TaskQueueFull]>>
        /\ cbq[c].pending = <<>>
        /\ semValue = 0

(***************************************************************************)
(* Claims about Subject.notifyObservers (checked under SpecSubject).       *)
(***************************************************************************)
\* The observers a finished pass has invoked, in order.
Invoked(t) == [i \in 1..Len(passLog[t]) |-> passLog[t][i].obs]
PassOver(t) == tpc[t] = "deliver" /\ idx[t] > Len(snapshot[t])

\* Every observer of the pass is invoked, also after another one raised.
C4_AllInvoked == \A t \in Threads : PassOver(t) => Invoked(t) = snapshot[t]

\* At the end of the pass exactly the observers that raised are taken out of
\* the observer list; the others stay, in their order.
C4_RemovedAtEnd ==
    \A t \in Threads :
        notify_finish(t) =>
            /\ Range(failed[t]) \cap Range(observers') = {}
            /\ observers' = Without(observers, Range(failed[t]))

\* A pass copies the observer list as it is then: after the removal it holds
\* the other observers and not the removed one (unless it was attached again).
C4_LaterPassSkips ==
    \A t \in Threads :
        notify_snapshot(t) =>
            /\ snapshot'[t] = observers
            /\ Range(snapshot'[t]) \cap evicted = {}

\* A removed observer is invoked only by a pass that copied the list before
\* the removal.
C4_OnlyEarlierPass ==
    \A t \in Threads, r \in BOOLEAN :
        (notify_observer(t, r) /\ snapshot[t][idx[t]] \in evicted)
            => snapshot[t][idx[t]] \in stale[t]

\* C4 (amended): an observer whose update raises is removed from the
\* observer list at the end of that pass and is invoked by no pass that
\* starts after the removal, unless it is attached again; a concurrent pass
\* that copied the list before the removal may still invoke it.  Every other
\* observer of the pass is invoked and stays attached.
C4_FailingObserverRemoved ==
    /\ []C4_AllInvoked
    /\ [][C4_RemovedAtEnd /\ C4_LaterPassSkips /\ C4_OnlyEarlierPass]_vars

\* C4 as claimed: once removed for a failure (and not attached again), an
\* observer receives no further notification, also under concurrent passes.
C4_NoNotificationAfterRemoval ==
    [][\A t \in Threads, r \in BOOLEAN :
          notify_observer(t, r) => snapshot[t][idx[t]] \notin evicted]_vars

\* C4 witness: one observer has been removed for a failure, and a pass that
\* started after the removal has invoked the remaining observer.
C4_Witness ==
    \E t \in Threads :
        /\ evicted # {}
        /\ PassOver(t)
        /\ stale[t] = {}
        /\ Len(snapshot[t]) = 1
        /\ Invoked(t) = snapshot[t]

(***************************************************************************)
(* Claims about the controller's caches (checked under SpecController).    *)
(***************************************************************************)
\* Thread t is inside update_<r>: past the cache write, notification not over.
Updating(t, r) == op[t].name = "update" /\ op[t].res = r /\ InPass(t)

\* C5: updates of one resource are applied one at a time, each notified
\* before the next one replaces the cache.  So it never happens that the
\* observers have been handed the list the cache holds (the later write) and
\* are then handed the list of an earlier write by a call still in progress.
C5_NotifiedInWriteOrder ==
    \A r \in ResourceSet, t \in Threads, u \in Threads :
        ~ /\ t # u
          /\ Updating(t, r) /\ Updating(u, r)
          /\ cache[r] = op[t].data /\ op[u].data # op[t].data
          /\ PassOver(t) /\ snapshot[t] # <<>>
          /\ tpc[u] = "deliver" /\ idx[u] = 1 /\ snapshot[u] = snapshot[t]

\* C6: whatever runs concurrently (updates, batch updates, clears), a
\* get_<resource>() returns one whole list: the empty list or a list that
\* was passed to an update, never a mixture; the caches hold nothing else.
C6_GetReturnsWholeList ==
    /\ \A t \in Threads : got[t] \in Lists
    /\ \A r \in ResourceSet : cache[r] \in Lists

\* C6 witness: a get has returned the list ["a"] of volumes while the other
\* thread is in the middle of clear_all_caches (containers already emptied,
\* volumes not yet).
C6_Witness ==
    \E t \in Threads, u \in Threads :
        /\ t # u
        /\ tpc[u] = "clear" /\ pos[u] \in 2..4
        /\ cache["volumes"] = ListValue(<<"a">>)
        /\ got[t] = ListValue(<<"a">>)
        /\ tpc[t] = "idle"

\* C8: update_<resource> called with None or with a non-list changes no
\* cache, starts no notification pass (no observer is invoked), does not
\* raise, and returns.
C8_RefusedStep ==
    \A t \in Threads, r \in ResourceSet, d \in NotLists :
        update_resource(t, r, d) =>
            /\ cache' = cache
            /\ observers' = observers
            /\ tpc'[t] = "idle"
            /\ passLog'[t] = <<>>
            /\ raisedOut'[t] = FALSE
            /\ UNCHANGED <<snapshot, idx, failed>>

C8_RefusedState ==
    \A t \in Threads :
        (tpc[t] = "idle" /\ op[t].name = "update") =>
            /\ op[t].data \in NotLists
            /\ passLog[t] = <<>>
            /\ ~raisedOut[t]

C8_MisuseIsNoOp == []C8_RefusedState /\ [][C8_RefusedStep]_vars

\* C8 witness: with both observers attached and a non-empty cache, one
\* thread's update with None and the other's with a non-list have returned.
C8_Witness ==
    \E t \in Threads, u \in Threads :
        /\ tpc[t] = "idle" /\ op[t].name = "update" /\ op[t].data = None
        /\ tpc[u] = "idle" /\ op[u].name = "update" /\ op[u].data = NotAList
        /\ op[t].res = op[u].res
        /\ cache[op[t].res] = ListValue(<<"a">>)
        /\ Len(observers) = 2

\* The event type of each update method (docker_controller.py:85, 139, 193, 247).
UpdatedEvent ==
    [r \in ResourceSet |->
        CASE r = "containers" -> "containers_updated"
          [] r = "networks" -> "networks_updated"
          [] r = "images" -> "images_updated"
          [] r = "volumes" -> "volumes_updated"]

\* C9: every accepted update_<resource>(L) writes L to the cache and then
\* runs one notification pass, also when L is what the cache held; the pass
\* invokes each observer attached when it copies the observer list exactly
\* once, with event type "<resource>_updated" and payload L.
C9_PassState ==
    \A t \in Threads :
        (op[t].name = "update" /\ tpc[t] = "deliver") =>
            /\ passLog[t] =
                  [i \in 1..(idx[t] - 1) |->
                      [obs |-> snapshot[t][i],
                       event |-> UpdatedEvent[op[t].res],
                       data |-> op[t].data]]
            /\ \A i \in 1..Len(snapshot[t]), j \in 1..Len(snapshot[t]) :
                  i # j => snapshot[t][i] # snapshot[t][j]

C9_UpdateStep ==
    \A t \in Threads, r \in ResourceSet, d \in Lists :
        update_resource(t, r, d) => cache'[r] = d /\ tpc'[t] = "notify"

C9_SnapshotStep ==
    \A t \in Threads : notify_snapshot(t) => snapshot'[t] = observers

C9_OneNotificationPerUpdate ==
    []C9_PassState /\ [][C9_UpdateStep /\ C9_SnapshotStep]_vars

\* C9 witness: two update_containers([]) calls are in progress, the second
\* found the cache already empty, and each has notified both observers.
C9_Witness ==
    \E t \in Threads, u \in Threads :
        /\ t # u
        /\ Updating(t, "containers") /\ Updating(u, "containers")
        /\ op[t].data = EmptyList /\ op[u].data = EmptyList
        /\ PassOver(t) /\ PassOver(u)
        /\ Len(passLog[t]) = 2 /\ Len(passLog[u]) = 2
        /\ cache["containers"] = EmptyList

(***************************************************************************)
(* Claims about the cached lists as objects (checked under SpecAlias).     *)
(***************************************************************************)
\* get_<resource>() returns a list equal to the cached one that is another
\* object than the cached list.
C7_GetStep ==
    \A r \in ResourceSet :
        get_copies(r) =>
            /\ ret' # cacheRef'[r]
            /\ ListContent(lists', dicts', ret') = ListContent(lists, dicts, cacheRef[r])

\* update_<resource>(L) makes the cache hold the content of L.
C7_UpdateStep ==
    \A r \in ResourceSet, items \in ArgLists :
        update_binds(r, items) =>
            ListContent(lists', dicts', cacheRef'[r]) = [k \in 1..Len(items) |-> dicts[items[k]]]

\* A change made through the returned list changes the content of no cache.
C7_MutationStep ==
    ((\E items \in ArgLists : mutate_returned_list(items))
        \/ (\E k \in 1..2, st \in Statuses : mutate_returned_element(k, st)))
    => \A r \in ResourceSet :
           ListContent(lists', dicts', cacheRef'[r]) = ListContent(lists, dicts, cacheRef[r])

\* C7: get_<resource>() right after update_<resource>(L) returns a list
\* equal to L that is not the cached list object, and no mutation made
\* through the returned value changes what later gets return.
C7_DefensiveCopy == [][C7_GetStep /\ C7_UpdateStep /\ C7_MutationStep]_vars

(***************************************************************************)
(* Claims about the construction (checked under SpecSingleton).            *)
(***************************************************************************)
\* Every call returns the same instance.
C10_SameInstance ==
    \A t \in Threads, u \in Threads :
        (result[t] # 0 /\ result[u] # 0) => result[t] = result[u]

\* No construction resets the observer list or the caches of an instance
\* that is in use.
C10_NoReset ==
    \A i \in Instances :
        /\ attrs[i].observers = "used" => attrs'[i].observers = "used"
        /\ attrs[i].caches = "used" => attrs'[i].caches = "used"

\* C10: every DockerDataController() / get_docker_controller() call, from
\* any thread, returns the same instance, whose state is initialised once:
\* no later or concurrent construction resets its caches or its observers.
C10_InitialisedOnce == []C10_SameInstance /\ [][C10_NoReset]_vars

\* ---------------------------------------------------------------------------
\* The auto-scaler (monitor_thread and scale_container)
\* ---------------------------------------------------------------------------

\* The run-container calls of the current iteration made for one handle.
RunCallsFor(container) ==
    {j \in 1..Len(scaleLog) : scaleLog[j].act = "run" /\ scaleLog[j].by = container}

\* An iteration that reached its sleep without being abandoned and during
\* which no setting was edited.
CycleDone == mpc = "sleep" /\ ~mon.failed /\ config = mon.cfg0

\* A listed container the scaler has to give a clone: running, not a clone,
\* over a limit, fewer than CLONE_NUM listed clones, auto-scaling enabled.
NeedsClone(k) ==
    /\ Eligible(mon.all[k], mon.pairs[k])
    /\ Overloaded(mon.pairs[k], config)
    /\ Len(existing_clones(mon.all[k], mon.all)) < config.clone_num
    /\ config.auto_scale

C11_ExactlyOneRun ==
    CycleDone =>
        \A k \in 1..Len(mon.all) :
            NeedsClone(k) =>
                /\ Cardinality(RunCallsFor(mon.all[k])) = 1
                /\ \A j \in RunCallsFor(mon.all[k]) :
                       scaleLog[j].labels =
                           [is_clone |-> "true", parent |-> mon.all[k].name,
                            created_by |-> APP_CREATED_BY_LABEL]

C11_NoBurstNoRetry ==
    \A j1, j2 \in 1..Len(scaleLog) :
        (/\ scaleLog[j1].act = "run" /\ scaleLog[j2].act = "run"
         /\ scaleLog[j1].by.name = scaleLog[j2].by.name) => j1 = j2

CallsFor(act, container) ==
    {j \in 1..Len(scaleLog) : scaleLog[j].act = act /\ scaleLog[j].by = container}

\* The at-capacity branch of scale_container ran for the k-th listed
\* container: it was paused and stop-then-remove was attempted on each of
\* its listed clones.
PausedAndCleaned(k) ==
    /\ CallsFor("pause", mon.all[k]) # {}
    /\ \A c \in 1..Len(mon.all) :
           (/\ is_clone_container(mon.all[c])
            /\ get_parent_container_name(mon.all[c]) = mon.all[k].name)
               => \E j \in CallsFor("stop_remove", mon.all[k]) :
                      scaleLog[j].target = mon.all[c].name

\* A listed running non-clone container with at least CLONE_NUM listed clones.
AtCapacityParent(k) ==
    /\ Eligible(mon.all[k], mon.pairs[k])
    /\ AtCapacity(Len(existing_clones(mon.all[k], mon.all)), config)

\* C12: in every polling cycle (completed, auto-scaling enabled, settings
\* untouched) a running non-clone parent with at least CLONE_NUM clones is
\* paused and stop-then-remove is attempted on each of its clones, whether
\* or not the parent is over a limit in that cycle.
C12_AtCapacityAlwaysHandled ==
    (CycleDone /\ config.auto_scale) =>
        \A k \in 1..Len(mon.all) : AtCapacityParent(k) => PausedAndCleaned(k)

\* C13: while auto-scaling is disabled no clone is created, but a running
\* parent with at least CLONE_NUM clones (here even one that is over a limit)
\* is still paused and its clones are still deleted by the polling cycle.
C13_DisabledStillCleans ==
    (CycleDone /\ ~config.auto_scale) =>
        /\ \A j \in 1..Len(scaleLog) : scaleLog[j].act # "run"
        /\ \A k \in 1..Len(mon.all) :
               (AtCapacityParent(k) /\ Overloaded(mon.pairs[k], config))
                   => PausedAndCleaned(k)

\* C14: every pause, clone deletion and clone creation of the auto-scaler is
\* made on behalf of a container that was listed as running and is not
\* itself a clone, and the parent recorded on every clone in the runtime is
\* not a clone.
C14_OnlyRunningNonClones ==
    /\ \A j \in 1..Len(scaleLog) :
           /\ scaleLog[j].by.status = "running"
           /\ ~is_clone_container(scaleLog[j].by)
           /\ scaleLog[j].act = "run" => scaleLog[j].labels.parent = scaleLog[j].by.name
    /\ \A n \in ContainerNames :
           is_clone_container(world[n]) =>
               ~is_clone_container(world[get_parent_container_name(world[n])])

\* The scaler handled the parent and left a running clone that is over a
\* limit alone.
C14_Witness ==
    /\ mpc = "sleep"
    /\ scaleLog # <<>>
    /\ \E k \in 1..Len(mon.all) :
           /\ is_clone_container(mon.all[k])
           /\ mon.all[k].status = "running"
           /\ Overloaded(mon.pairs[k], config)

\* C15: once the configuration version differs from the one the cycle
\* captured, no scale action of that cycle (pause, clone deletion, clone
\* creation) is executed.
C15_NoActionAfterEdit ==
    [][Len(scaleLog') > Len(scaleLog) => config.version = mon.observed]_vars

\* The positions of the polling loop.
MonitorPcs ==
    {"start", "list", "sample", "gate", "detect", "check", "scale", "pause", "delete",
     "create", "publish", "sleep"}

C16_CaughtInsideLoop == [][(mon'.failed /\ ~mon.failed) => mpc' = "sleep"]_vars
C16_NextIteration == (mpc # "start") ~> (mpc = "start")

\* C16: an exception in any step of an iteration is caught inside the loop
\* and leads to the sleep; after every iteration, failed or not, another
\* iteration eventually starts; the loop never terminates.
C16_LoopNeverEnds == [](mpc \in MonitorPcs) /\ C16_CaughtInsideLoop /\ C16_NextIteration

\* An iteration abandoned by an exception has reached the sleep.
C16_Witness == mpc = "sleep" /\ mon.failed

\* A step of the polling loop that is a call into the runtime client: the
\* listing, the stats of a running container, or a scale action.
MonitorClientCall ==
    \/ mpc = "list" /\ mpc' # "list"
    \/ /\ mpc = "sample"
       /\ Len(mon'.pairs) > Len(mon.pairs)
       /\ mon.all[mon.k].status = "running"
    \/ Len(scaleLog') > Len(scaleLog)

\* C17: at no time are two threads inside a call of the runtime client: no
\* two threads are in such a call together, and the polling loop makes none
\* of its calls while another thread is in one.
C17_NoConcurrentClientCalls ==
    /\ [](Cardinality(inClient) <= 1)
    /\ [][MonitorClientCall => inClient = {}]_vars

\* ---------------------------------------------------------------------------
\* The event listener (docker_events_listener)
\* ---------------------------------------------------------------------------

\* C18: within one run of the listener, an app event handled less than 500 ms
\* (by the listener's clock reading for it) after the last event that
\* triggered a refresh triggers no refresh submission but is forwarded to
\* the observers; so of two such events 100 ms apart the first alone is
\* submitted and both are forwarded.
C18_DebouncedButForwarded ==
    /\ \A i \in 1..Len(hist) :
           /\ hist[i].notified
           /\ hist[i].gap < 5 => ~hist[i].submitted
    /\ (Len(hist) = 2 /\ hist[2].gap = 1) =>
           /\ Cardinality({i \in 1..2 : hist[i].submitted}) = 1
           /\ Cardinality({i \in 1..2 : hist[i].notified}) = 2

\* Two app events 100 ms apart have been handled: the first was submitted,
\* the second forwarded only.
C18_Witness ==
    /\ Len(hist) = 2
    /\ hist[1].submitted /\ hist[1].notified
    /\ hist[2].gap = 1 /\ hist[2].notified /\ ~hist[2].submitted
    /\ lpc = "wait"

\* C19: the listener stops for good only when max_restarts (5) restarts in a
\* row have failed, that is, the stream has failed five times without
\* yielding an event in between.
C19_StopsAfterConsecutiveFailures == lpc = "stopped" => consecutive >= 5

\* A refresh step: docker_lock changes hands, a refresh moves on, or the
\* cache is written.
RefreshStep == docker_lock' # docker_lock \/ rpc' # rpc \/ cache' # cache

C20_NeverWaits == lpc # "blocked" /\ \A c \in Calls : pc[c] # "blocked"
C20_OnPoolThread ==
    [][RefreshStep => (UNCHANGED streamVars /\ \E c \in Calls : pc[c] = "running")]_vars
C20_RejectionIsLogged ==
    [][(lpc = "submit" /\ lpc' # "submit") =>
          /\ lpc' = "wait"
          /\ semValue > 0 => \E c \in Calls : pc[c] # "acquired" /\ pc'[c] = "acquired"
          /\ semValue = 0 =>
                 \E c \in Calls :
                     /\ pc'[c] = "rejected"
                     /\ fnRuns'[c] = 0
                     /\ cbq'[c].delivered = <<[cb |-> "on_error", arg |-> "TaskQueueFull"]>>]_vars

\* C20: the refresh runs on a pool thread of the task runner, never as a
\* step of the event-stream thread, which neither takes docker_lock nor
\* waits for capacity; a rejected submission is logged through on_error, no
\* refresh runs for it, and the listener waits for the next event.
C20_RefreshOnTaskRunner == []C20_NeverWaits /\ C20_OnPoolThread /\ C20_RejectionIsLogged

\* While one refresh runs under docker_lock, a second submission was
\* rejected and the listener is handling the next event.
C20_Witness ==
    /\ lpc = "notify"
    /\ \E c, d \in Calls :
           /\ pc[c] = "rejected"
           /\ cbq[c].delivered = <<[cb |-> "on_error", arg |-> "TaskQueueFull"]>>
           /\ pc[d] = "running"
           /\ docker_lock = PoolThread(d)

\* An event the listener has to pass over: not of type container, an action
\* outside the nine, or an actor with neither the label nor the name prefix.
PassedOver(event) ==
    \/ event.Type # "container"
    \/ event.Action \notin
           {"create", "start", "stop", "die", "destroy", "pause", "unpause", "kill", "restart"}
    \/ /\ event.created_by # "docker-monitor-manager"
       /\ ~(Len(event.name) >= 4 /\ SubSeq(event.name, 1, 4) = <<"d", "m", "m", "-">>)

\* C21: the receipt of an event that is not of type container, whose action
\* is outside the nine, or whose actor has neither the app's label nor a name
\* starting with 'dmm-' notifies no observer, submits no refresh and leaves
\* the debounce clock alone: the listener stays where it was.
C21_FilteredEventIgnored ==
    [][\A event \in StreamEvents :
           (PassedOver(event) /\ l_event(event)) =>
               /\ lpc' = "wait"
               /\ UNCHANGED <<ev, since_refresh, hist>>
               /\ UNCHANGED <<workerVars, controllerVars, subjectVars>>]_vars

\* After a restart the stream has yielded an event (the failure count is
\* back at zero) and the listener, waiting again, has handled none.
C21_Witness ==
    /\ lpc = "wait"
    /\ _restart_count > 0
    /\ consecutive = 0
    /\ hist = <<>>

\* ---------------------------------------------------------------------------
\* Blocking admission (run_in_thread with block=True)
\* ---------------------------------------------------------------------------
C22_NeverRejected ==
    [][\A c \in Waiters :
          /\ (\E a \in CallArgs : run_in_thread(c, a, TRUE)) => pc'[c] \in {"acquired", "blocked"}
          /\ pc[c] = "blocked" => pc'[c] \in {"blocked", "acquired"}]_vars

\* C22: a run_in_thread call with block=True is never rejected; it waits for
\* a permit and, every running task finishing, is eventually admitted and
\* its function executed.
C22_BlockingCallRuns ==
    /\ C22_NeverRejected
    /\ \A c \in Waiters : (pc[c] = "blocked") ~> (fnRuns[c] > 0)

\* C22, amended: a call with block=True is never rejected and waits for a
\* permit; every running task finishing, it is eventually admitted provided
\* the freed permits are not for ever taken by other callers first, and its
\* function is then executed unless the executor refuses the task.
C22_BlockingCallRunsUnlessOvertaken ==
    /\ C22_NeverRejected
    /\ \A c \in Waiters :
           SF_vars(acquire_blocking(c)) =>
               ((pc[c] = "blocked") ~> (fnRuns[c] > 0 \/ pc[c] = "submit_failed"))

\* A blocking call is waiting for a permit that another call holds.
C22_Witness ==
    \E c, d \in Waiters :
        /\ pc[c] = "blocked"
        /\ semValue = 0
        /\ pc[d] \in {"queued", "running"}

\* ---------------------------------------------------------------------------
\* Batch update (update_all_resources)
\* ---------------------------------------------------------------------------
\* The resources whose argument is not None, in the order of the method.
NotNone(args) == SelectSeq(Resources, LAMBDA r : args[r] # None)

C23_CachesReplaced ==
    [][\A t \in Threads :
          /\ (wrote'[t] # wrote[t] /\ wrote'[t] # <<>>) =>
                 LET r == wrote'[t][Len(wrote'[t])]
                 IN /\ op[t].data[r] # None
                    /\ cache' = [cache EXCEPT ![r] = op[t].data[r]]
          /\ (tpc[t] = "batch" /\ tpc'[t] # "batch") =>
                 /\ cache' = cache
                 /\ wrote[t] = NotNone(op[t].data)
                 /\ tpc'[t] = (IF wrote[t] = <<>> THEN "idle" ELSE "notify")]_vars

C23_OneBatchNotification ==
    \A t \in Threads :
        op[t].name = "update_all" =>
            /\ tpc[t] \in {"notify", "deliver"} =>
                   wrote[t] = NotNone(op[t].data) /\ wrote[t] # <<>>
            /\ tpc[t] = "idle" => NotNone(op[t].data) = <<>> /\ passLog[t] = <<>>
            /\ \A i \in 1..Len(passLog[t]) :
                   /\ passLog[t][i].event = "batch_updated"
                   /\ passLog[t][i].data = op[t].data
                   /\ \A j \in 1..Len(passLog[t]) :
                          passLog[t][j].obs = passLog[t][i].obs => j = i
            /\ (tpc[t] = "deliver" /\ idx[t] > Len(snapshot[t])) =>
                   Len(passLog[t]) = Len(snapshot[t])

\* C23: update_all_resources replaces exactly the caches whose argument is
\* not None, each by that argument, and leaves the others alone; when at
\* least one argument is not None it sends one batch_updated notification
\* (each observer is invoked once, with the four arguments), when all are
\* None it sends none; it sends no <resource>_updated notification.
C23_BatchUpdate == C23_CachesReplaced /\ []C23_OneBatchNotification

\* A batch call that passed an empty list and a None has delivered its
\* notification, while the cache it was told to leave alone holds data.
C23_Witness ==
    \E t \in Threads :
        /\ op[t].name = "update_all"
        /\ tpc[t] = "deliver" /\ idx[t] > Len(snapshot[t]) /\ Len(snapshot[t]) > 0
        /\ op[t].data["containers"] = EmptyList
        /\ op[t].data["volumes"] = None
        /\ cache["volumes"] # EmptyList

\* ---------------------------------------------------------------------------
\* The observer list (attach, detach, notifyObservers)
\* ---------------------------------------------------------------------------
NoDuplicates(q) == \A i, j \in 1..Len(q) : q[i] = q[j] => i = j

C24_NoObserverTwice ==
    /\ NoDuplicates(observers)
    /\ \A t \in Threads : NoDuplicates(snapshot[t]) /\ NoDuplicates(Invoked(t))

C24_NoOpSteps ==
    \A o \in Observers :
        /\ (attach(o) /\ o \in Range(observers)) => observers' = observers
        /\ (attach(o) /\ o \notin Range(observers)) => observers' = Append(observers, o)
        /\ (detach(o) /\ o \notin Range(observers)) => observers' = observers
        /\ detach(o) => o \notin Range(observers')

\* C24: whatever attach, detach and notification passes have run, also
\* concurrently, no observer is in the observer list twice: attaching an
\* attached observer and detaching one that is not attached leave the list
\* as it is, and one pass invokes each observer at most once.
C24_ObserverSetUnique == []C24_NoObserverTwice /\ [][C24_NoOpSteps]_vars

\* Both observers are attached and one pass has invoked each of them.
C24_Witness ==
    \E t \in Threads :
        /\ Len(observers) = 2
        /\ PassOver(t)
        /\ Len(Invoked(t)) = 2

IndexIn(q, o) == CHOOSE i \in 1..Len(q) : q[i] = o
\* The observers of q that are still in r stand in r in the order of q.
KeepsOrder(q, r) ==
    \A a, b \in Range(q) \cap Range(r) :
        IndexIn(q, a) < IndexIn(q, b) => IndexIn(r, a) < IndexIn(r, b)

C25_InOrderSoFar ==
    \A t \in Threads :
        tpc[t] = "deliver" =>
            /\ idx[t] \in 1..(Len(snapshot[t]) + 1)
            /\ Invoked(t) = SubSeq(snapshot[t], 1, idx[t] - 1)

C25_PassSteps ==
    /\ KeepsOrder(observers, observers')
    /\ \A o \in Range(observers') \ Range(observers) : observers' = Append(observers, o)
    /\ \A t \in Threads :
           /\ (tpc[t] = "notify" /\ tpc'[t] # "notify") =>
                  tpc'[t] = "deliver" /\ snapshot'[t] = observers /\ passLog'[t] = <<>>
           /\ (tpc[t] = "deliver" /\ tpc'[t] # "deliver") =>
                  tpc'[t] = "idle" /\ Invoked(t) = snapshot[t]
           /\ (InPass(t) /\ op'[t] # op[t]) => tpc'[t] = "idle"
           /\ (tpc[t] = "deliver" /\ passLog'[t] # passLog[t] /\ tpc'[t] = "deliver") =>
                  /\ passLog'[t] = Append(passLog[t], passLog'[t][Len(passLog'[t])])
                  /\ snapshot'[t] = snapshot[t]

\* C25: a pass of notifyObservers invokes the observers that were attached
\* when it started, one after the other in the order in which they were
\* attached, as steps of the calling thread, which does nothing else until
\* the pass is over; the call returns only when each of them has been invoked.
C25_SynchronousInOrder == []C25_InOrderSoFar /\ [][C25_PassSteps]_vars

\* A pass over two observers has invoked the first and not yet the second,
\* while the second has been detached in the meantime.
C25_Witness ==
    \E t \in Threads :
        /\ tpc[t] = "deliver"
        /\ Len(snapshot[t]) = 2 /\ idx[t] = 2
        /\ snapshot[t][2] \notin Range(observers)

\* ---------------------------------------------------------------------------
\* The controller's locks
\* ---------------------------------------------------------------------------
HeldBy(t) == {l \in Locks : holder[l] = t}
Waiting(t) ==
    /\ todo[t] # <<>>
    /\ Head(todo[t]).do = "acquire"
    /\ holder[Head(todo[t]).lock] # Unheld

C26_OneLockAtATime == \A t \in Threads : Cardinality(HeldBy(t)) <= 1
C26_NoLockWhileNotifying ==
    \A t \in Threads :
        (todo[t] # <<>> /\ Head(todo[t]).do = "update") => HeldBy(t) = {}
\* A thread that waits for a lock waits for another thread, which is inside
\* the block of that same lock and about to leave it.
C26_WaitsOnlyForSameLock ==
    \A t \in Threads :
        Waiting(t) =>
            LET l == Head(todo[t]).lock
            IN /\ holder[l] # t
               /\ todo[holder[l]] # <<>>
               /\ Head(todo[holder[l]]) = Release(l)
C26_SomeThreadCanRun ==
    (\E t \in Threads : todo[t] # <<>>) => (\E t \in Threads : todo[t] # <<>> /\ ~Waiting(t))

\* C26: no operation of the controller holds two cache locks at once, and no
\* lock (cache or observer list) is held while an observer is invoked; a
\* thread therefore waits only for a thread that is inside the block of the
\* very lock it wants, an observer may call get_<resource>, attach or detach
\* from its update, and the locks never deadlock.
C26_LocksIndependent ==
    /\ C26_OneLockAtATime
    /\ C26_NoLockWhileNotifying
    /\ C26_WaitsOnlyForSameLock
    /\ C26_SomeThreadCanRun

\* An observer invoked by an update of the containers has called
\* get_containers and holds the containers lock, while the other thread
\* waits for that lock.
C26_Witness ==
    \E t, u \in Threads :
        /\ holder[CacheLock("containers")] = t
        /\ Len(todo[t]) > 1 /\ todo[t][2].do = "update"
        /\ Waiting(u) /\ Head(todo[u]).lock = CacheLock("containers")

\* ---------------------------------------------------------------------------
\* get_container_stats and calculate_cpu_percent
\* ---------------------------------------------------------------------------
Sampled == probe.fn = "get_container_stats"

\* C27: for a container whose status is not running, get_container_stats
\* returns its id, its name and its own status with cpu and ram 0, and makes
\* no stats call to the runtime.
C27_NotRunningNoStatsCall ==
    (Sampled /\ probe.handle.kind = "container" /\ probe.handle.status # "running") =>
        /\ out.snapshot = Snapshot(probe.handle, 0, 0, 0)
        /\ out.snapshot.status = probe.handle.status
        /\ out.snapshot.calls = 0

\* A paused container was sampled while the runtime would have answered
\* with figures, and an exited one while it would have answered not-found.
C27_Witness ==
    /\ Sampled /\ probe.handle.kind = "container"
    /\ \/ probe.handle.status = "paused" /\ probe.answer.kind = "stats"
       \/ probe.handle.status = "exited" /\ probe.answer.kind = "NotFound"
    /\ out.snapshot.ret = "dict"

\* The stats answer lacks a field, holds a null, or is of the wrong shape.
Malformed(stats) ==
    \/ stats.memory_stats # "dict"
    \/ \E f \in {"cpu_current", "cpu_prev", "system_current", "system_prev",
                 "online_cpus", "usage", "limit"} : stats[f].kind # "num"
\* A failure other than not-found while sampling a running container.
OtherFailure ==
    /\ probe.handle.kind = "container" /\ probe.handle.status = "running"
    /\ \/ probe.answer.kind = "APIError"
       \/ /\ probe.answer.kind = "stats"
          /\ probe.answer.stats.limit = Num(0) \/ Malformed(probe.answer.stats)

\* C28: get_container_stats never raises; a null handle gives a snapshot
\* with status error; exactly a not-found of the runtime gives None; any
\* other failure, a memory limit of 0 and malformed stats included, gives a
\* snapshot with cpu and ram 0.
C28_NeverRaisesZeroedOnFailure ==
    Sampled =>
        /\ out.snapshot.ret \in {"dict", "None"}
        /\ probe.handle.kind = "None" => out.snapshot.ret = "dict" /\ out.snapshot.status = "error"
        /\ out.snapshot.ret = "None" <=>
               /\ probe.handle.kind = "container" /\ probe.handle.status = "running"
               /\ probe.answer.kind = "NotFound"
        /\ OtherFailure =>
               out.snapshot.ret = "dict" /\ out.snapshot.cpu = 0 /\ out.snapshot.ram = 0


CpuCall == probe.fn = "calculate_cpu_percent"
Counters(stats) == {stats.cpu_current, stats.cpu_prev, stats.system_current, stats.system_prev}
cpuDelta(stats) == stats.cpu_current.v - stats.cpu_prev.v
systemDelta(stats) == stats.system_current.v - stats.system_prev.v
AllNumbers(S) == \A x \in S : x.kind = "num"
SameNumber(x, y) == x.num * y.den = y.num * x.den

C29_NeverNegativeNoZeroDivision ==
    CpuCall =>
        /\ out.cpu.raised = "none"
        /\ out.cpu.value.den > 0
        /\ out.cpu.value.num >= 0

Kept == {k \in 1..Len(mon.pairs) : mon.pairs[k] # NoStats}
KeptAt(i) == CHOOSE k \in Kept : Cardinality({j \in Kept : j <= k}) = i
IterationOver == mpc = "sleep"

C30_PublishedState ==
    /\ mon.published <= 1
    /\ mon.published = 1 => IterationOver /\ ~mon.failed
    /\ (IterationOver /\ mon.failed) => mon.published = 0
    /\ (IterationOver /\ ~mon.failed) =>
           /\ mon.published = 1
           /\ Len(mon.pairs) = Len(mon.all)
           /\ LET payload == cache["containers"].items
              IN /\ Len(payload) = Cardinality(Kept)
                 /\ \A i \in 1..Len(payload) :
                        /\ payload[i] = mon.pairs[KeptAt(i)]
                        /\ payload[i].name = mon.all[KeptAt(i)].name

C30_PublishStep ==
    mon'.published > mon.published =>
        /\ mpc = "publish" /\ mpc' = "sleep"
        /\ mon'.published = mon.published + 1

\* C30: an iteration of the polling loop that completes makes one
\* update_containers call, as its last step after the scaler's pass, with
\* the snapshots of the containers listed at its start, in listing order,
\* those whose sampling returned None left out; an iteration that fails
\* makes no update call.
C30_OneUpdatePerIteration == []C30_PublishedState /\ [][C30_PublishStep]_vars

\* An iteration has published the snapshots of the other containers while a
\* listed container had been removed before it was sampled.
C30_Witness ==
    /\ IterationOver /\ ~mon.failed /\ mon.published = 1
    /\ \E k \in 1..Len(mon.pairs) : mon.pairs[k] = NoStats
    /\ Len(cache["containers"].items) >= 1

\* ---------------------------------------------------------------------------
\* The callbacks of an accepted task
\* ---------------------------------------------------------------------------
\* The callbacks of call c, invoked or posted to the Tk loop, in order.
Callbacks(q) == q.delivered \o q.pending
\* What _task must have scheduled: nothing without the callback, else the one
\* callback with its argument, invoked at once unless a live tk_root was given.
OneCallback(a, cb, arg) ==
    IF a.tk_root = "ok"
    THEN [pending |-> <<[cb |-> cb, arg |-> arg]>>, delivered |-> <<>>]
    ELSE [pending |-> <<>>, delivered |-> <<[cb |-> cb, arg |-> arg]>>]

C31_TaskStep ==
    \A c \in Waiters, cbRaises \in BOOLEAN :
        /\ \A r \in Returns :
               _task_cb(c, FALSE, r, cbRaises) =>
                   cbq'[c] = IF call[c].on_done THEN OneCallback(call[c], "on_done", r)
                             ELSE NoCallbacks
        /\ \A e \in TaskErrors :
               _task_cb(c, TRUE, e, cbRaises) =>
                   cbq'[c] = IF call[c].on_error THEN OneCallback(call[c], "on_error", e)
                             ELSE NoCallbacks

C31_AtMostOne ==
    \A c \in Waiters :
        /\ pc[c] \in {"finally", "done"} => Len(Callbacks(cbq[c])) <= 1
        /\ pc[c] = "done" => released[c] = 1

\* C31: for an accepted task at most one of on_done and on_error is invoked,
\* once: on_done with the result when fn returned, on_error with the
\* exception when it raised; without a usable tk_root the callback runs at
\* once on the worker; an exception of a callback neither brings on_error to
\* a task that succeeded nor keeps the permit from being released.
C31_OneCallbackWithResult == []C31_AtMostOne /\ [][C31_TaskStep]_vars


\* What a manual action notifies and writes, in order, once its runtime
\* call is over.
ActionNote(f) ==
    [event |-> "container_action", action |-> f.request,
     container_name |-> "web", success |-> f.success]
ExpectedLog(f) ==
    IF f.success
    THEN <<ActionNote(f), [event |-> "cache replaced"], [event |-> "containers_updated"]>>
    ELSE <<ActionNote(f)>>
IsPrefix(s, t) == Len(s) <= Len(t) /\ SubSeq(t, 1, Len(s)) = s
ActionOver(f) == f.request # NoRequest /\ f.todo = <<>>

\* C32: a manual container action delivers exactly one container_action
\* notification carrying the action, the target and the success flag,
\* whether the runtime call succeeded or raised; it replaces the cache
\* (with its containers_updated notification) only after that notification
\* and only when the call succeeded, and after a failure it neither
\* replaces the cache nor notifies containers_updated.
C32_OneActionNotification ==
    LET f == flow["_perform_action"]
    IN /\ IsPrefix(f.log, ExpectedLog(f))
       /\ ActionOver(f) => f.log = ExpectedLog(f)

\* A successful action has notified, refreshed the cache and returned.
C32_Witness ==
    LET f == flow["_perform_action"]
    IN ActionOver(f) /\ f.success /\ Len(f.log) = 3


\* The _offer_latest call of producer p returns in this step.
OfferReturns(p) == offer[p].at # "idle" /\ offer'[p].at = "idle"
Newest(q, p) == q # <<>> /\ q[Len(q)] = [by |-> p, item |-> offer[p].item]

\* C33: _offer_latest never lets the bounded queue hold more than maxsize
\* items, and when a call returns the item it offered is the newest entry
\* of the queue, also when several producers offer concurrently.
C33_OfferedIsNewest ==
    /\ [](Len(queues) <= QueueSize)
    /\ [][\A p \in Producers : OfferReturns(p) => Newest(queues', p)]_vars

\* The queue never holds more than maxsize items.
C33_Bounded == Len(queues) <= QueueSize
\* A call has returned without leaving its item in the queue at all.
C33_Dropped ==
    \E p \in Producers :
        /\ offer[p].at = "idle" /\ offer[p].item > 0 /\ ~offer[p].kept
        /\ \A k \in 1..Len(queues) : queues[k] # [by |-> p, item |-> offer[p].item]


\* C34: the container cache never goes back in time: no update_containers,
\* by the polling loop, an event refresh or a manual action, replaces the
\* cached snapshot with one that was taken from an earlier listing of the
\* runtime than the snapshot it replaces.
C34_CacheNeverGoesBack == [][shown'.epoch >= shown.epoch]_vars

\* The cache shows a container again that a manual action removed and whose
\* removal the action's own refresh had published.
C34_RemovedReappears ==
    LET f == flow["_perform_action"]
    IN /\ ActionOver(f) /\ f.success /\ f.request = "remove"
       /\ runtime.state = "absent"
       /\ shown.items # <<>>


\* The thread of publisher p waits for docker_lock while holding it.
WaitsForItself(p) == Next_(p) = "lock" /\ docker_lock = ThreadOf(p)

\* C36: docker_lock is never held while the controller notifies observers
\* (it covers a single runtime operation only), so an observer whose update
\* calls a docker_lock-protected operation such as fetch_all_stats on the
\* notifying thread cannot deadlock.
C36_NoLockWhileNotifying ==
    \A p \in Publishers :
        /\ docker_lock = ThreadOf(p) => Next_(p) \notin {"update", "notify", "notify_action"}
        /\ ~WaitsForItself(p)

\* The refresh task waits for the lock it holds, and the polling loop waits
\* behind it.
C36_Deadlocked ==
    /\ WaitsForItself("_fetch_and_notify")
    /\ Next_("monitor_thread") = "lock"


\* A listing raises in this step.
ListingRaises == \E p \in Publishers : f_list(p, TRUE)
\* The cache holds the snapshot of the runtime as it is.
CacheCurrent == shown.items = ListingOf(runtime).items

ClonesOf(w, b) ==
    Cardinality({n \in ContainerNames :
                    /\ w[n].status # "absent"
                    /\ w[n].labels.is_clone = "true"
                    /\ w[n].labels.parent = ParentName(b)})
ListedClones(all, b) ==
    Len(SelectSeq(all, LAMBDA c : c.labels.is_clone = "true" /\ c.labels.parent = ParentName(b)))
\* This step creates a clone of parent b.
CreatesClone(b) == ClonesOf(world', b) > ClonesOf(world, b)
CreatedInCycle(log) == \E k \in 1..Len(log) : log[k].act = "run" /\ log[k].outcome = "created"

\* C35: while CLONE_NUM keeps its value, no step takes the number of clones
\* of a parent from within CLONE_NUM to above it; a clone is created only
\* in a cycle whose listing shows fewer than CLONE_NUM clones of the
\* parent, and at most one per cycle.
C35_ClonesWithinLimit ==
    [][\A b \in Bases :
          /\ (config'.clone_num = config.clone_num /\ ClonesOf(world, b) <= config.clone_num)
                => ClonesOf(world', b) <= config.clone_num
          /\ CreatesClone(b) =>
                /\ ListedClones(mon.all, b) < config.clone_num
                /\ ClonesOf(world', b) = ClonesOf(world, b) + 1
                /\ ~CreatedInCycle(scaleLog)]_vars

\* The limit is reached with room left in the runtime, and the cycle that
\* lists the clones turns to pausing the parent instead of creating.
C35_Witness ==
    /\ mpc = "pause"
    /\ config.clone_num < MaxCloneSlots
    /\ ClonesOf(world, "web") = config.clone_num
    /\ ListedClones(mon.all, "web") = config.clone_num


\* C37: the restart counter of the events listener only increases and is
\* never reset; over the lifetime of the process the listener subscribes
\* to the stream at most max_restarts times (the initial subscription and
\* max_restarts - 1 restarts), and once the counter has reached
\* max_restarts (the fifth stream failure) the listener is stopped and
\* stays stopped.
C37_BoundedRestarts ==
    /\ [](subscriptions <= max_restarts)
    /\ [](_restart_count >= max_restarts => lpc = "stopped")
    /\ [][/\ _restart_count' >= _restart_count
          /\ lpc = "stopped" => lpc' = "stopped"]_vars

\* The listener has stopped after its fifth subscription failed.
C37_Witness ==
    lpc = "stopped" /\ subscriptions = max_restarts /\ _restart_count = max_restarts


\* C40: the debounce is leading-edge: last_refresh_time is advanced only by
\* an event that goes on to a refresh submission; an event handled at least
\* MIN_REFRESH_INTERVAL after the previous triggering event triggers a
\* refresh itself, however many events were debounced in between; and any
\* two refresh submissions of one listener run are at least
\* MIN_REFRESH_INTERVAL apart.
C40_LeadingEdgeDebounce ==
    [][/\ since_refresh' < since_refresh => lpc = "debounce" /\ lpc' \in {"settle", "submit"}
       /\ (lpc = "debounce" /\ lpc' # "debounce" /\ since_refresh >= MIN_REFRESH_INTERVAL)
             => lpc' \in {"settle", "submit"}
       /\ (lpc = "submit" /\ lpc' # "submit") => since_submit >= MIN_REFRESH_INTERVAL]_vars

\* The first two parts alone: the timestamp moves only with a triggering
\* event, and an event that is late enough triggers.
C40_TimestampLeadingEdge ==
    [][/\ since_refresh' < since_refresh => lpc = "debounce" /\ lpc' \in {"settle", "submit"}
       /\ (lpc = "debounce" /\ lpc' # "debounce" /\ since_refresh >= MIN_REFRESH_INTERVAL)
             => lpc' \in {"settle", "submit"}]_vars


\* C39: the cache is not aliased with a list the caller can reach: after
\* update_<resource>(L), a change made to L itself (by the caller, or by an
\* observer through the payload it received) does not change what
\* get_<resource>() returns.
C39_CacheNotAliased ==
    [][\A r \in ResourceSet, items \in ArgLists :
          mutate_argument_list(r, items) =>
              ListContent(lists', dicts', cacheRef'[r]) = ListContent(lists, dicts, cacheRef[r])]_vars

=============================================================================
